---- MODULE Spec2Model ----
(***************************************************************************)
(* A model of go-pac: the PACProxy evaluator (proxy.go), its loader        *)
(* NewPACProxy, the configuration defaulting and the ProxyString parser.   *)
(***************************************************************************)
EXTENDS Integers, Sequences, FiniteSets, TLC

(***************************************************************************)
(* Bounds of the model.                                                    *)
(***************************************************************************)
\* number of goroutines calling FindProxyStringForURL on the one instance
NProcs == 2
\* total number of FindProxyStringForURL calls started in one behaviour
MaxCalls == 2

Procs == 1..NProcs

(***************************************************************************)
(* Go error values.  An error is modelled by what the callers can observe  *)
(* of it: the sentinels errors.Is matches (chain) and, for errors.As with  *)
(* *goja.InterruptedError, the value the interrupt carried (intr); type is *)
(* its dynamic type.                                                       *)
(***************************************************************************)
Nil == [nil |-> TRUE, type |-> "nil", chain |-> {}, intr |-> "none"]

Sentinel(name) == [nil |-> FALSE, type |-> "errorString", chain |-> {name}, intr |-> "none"]

ErrFetchPACScript == Sentinel("ErrFetchPACScript")
ErrReadPACScript == Sentinel("ErrReadPACScript")
ErrExecutePACScript == Sentinel("ErrExecutePACScript")
ErrEvaluatePAC == Sentinel("ErrEvaluatePAC")
ErrConvertResult == Sentinel("ErrConvertResult")
ErrPACScriptTimeout == Sentinel("ErrPACScriptTimeout")
ErrPACScriptTooLarge == Sentinel("ErrPACScriptTooLarge")

\* errors.Is(err, target) for a sentinel target
ErrorsIs(err, target) == (~err.nil) /\ (target.chain \subseteq err.chain)

\* fmt.Errorf("%w: %v", sentinel, cause): only the %w operand stays in the
\* chain; the %v operand is rendered as text and is invisible to errors.Is
\* and errors.As.
ErrorfWV(sentinel, cause) ==
    [nil |-> FALSE, type |-> "wrapError", chain |-> sentinel.chain, intr |-> "none"]

\* the *goja.InterruptedError a script call returns when Interrupt(v) aborted it
InterruptedError(v) ==
    [nil |-> FALSE, type |-> "InterruptedError", chain |-> {}, intr |-> v]

\* a JavaScript exception thrown by the script (a *goja.Exception)
ScriptException == [nil |-> FALSE, type |-> "Exception", chain |-> {}, intr |-> "none"]

normalizePACError(err) ==
    IF err.nil THEN Nil
    ELSE IF err.type = "InterruptedError" /\ err.intr = "ErrPACScriptTimeout"
         THEN ErrPACScriptTimeout
    ELSE err

(***************************************************************************)
(* goja values returned by FindProxyForURL.                                *)
(***************************************************************************)
PacString == "PROXY a:1"
NilValue == [type |-> "nil", s |-> ""]
StringValue(s) == [type |-> "string", s |-> s]
NumberValue == [type |-> "number", s |-> ""]

\* what the script's FindProxyForURL does on a call
Kinds == {"string", "number", "throw", "loop"}

VARIABLES
    scriptTimeout,  \* PACProxy.scriptTimeout after normalisation (0: disabled)
    fnDefined,      \* the script defines a callable FindProxyForURL
    mu,             \* PACProxy.mu: 0 when free, else the call holding it
    interrupted,    \* the goja runtime's pending-interrupt flag
    pc,             \* position of each caller in evalWithTimeout
    wpc,            \* position of the goroutine running fn for each call
    kind,           \* behaviour of FindProxyForURL for the current call
    wres,           \* (value, err) returned by fn
    resultCh,       \* the call's buffered result channel (capacity 1)
    hist,           \* per call in flight: facts about its course (history)
    last,           \* the call that returned most recently: its script's
                    \* behaviour, its course and what it returned
    ncalls,         \* calls started so far
    sawTimeout      \* some call has returned after its timer fired and it interrupted

evalVars == <<scriptTimeout, fnDefined, mu, interrupted, pc, wpc, kind, wres,
              resultCh, hist, last, ncalls, sawTimeout>>

VARIABLES
    tokens,         \* the directives a script put into its return value
    ps,             \* the ProxyString Parse is called on
    parsed          \* what ProxyString.Parse returned

parseVars == <<tokens, ps, parsed>>

VARIABLES
    config,         \* the *PACProxyConfig passed by the caller
    cfg             \* what normalizePACProxyConfig returned

cfgVars == <<config, cfg>>

VARIABLES
    lconfig,        \* NewPACProxy: the config argument
    lcfg,           \* NewPACProxy: cfg, the normalised configuration
    lpc,            \* NewPACProxy: the stage it is at
    resp,           \* the *http.Response (and error) of client.Get
    script,         \* the number of script bytes read
    topKind,        \* what the script's top-level code does when run
    vmInterrupted,  \* the new runtime's pending-interrupt flag
    lwpc,           \* runWithTimeout: position of the goroutine running fn
    lwres,          \* runWithTimeout: the error fn returned
    lresultCh,      \* runWithTimeout: resultCh (capacity 1)
    lhist,          \* history: the stages entered, the timer, the interrupt
    result          \* what NewPACProxy returned

loadVars == <<lconfig, lcfg, lpc, resp, script, topKind, vmInterrupted, lwpc,
              lwres, lresultCh, lhist, result>>

VARIABLES
    hfn,            \* the PAC helper function the script calls
    hargs,          \* call.Arguments: the values the script passes
    hnow,           \* time.Now().In(loc): the clock reading in the location
                    \* splitArgsAndLocation selected
    hdns,           \* what the resolver answers when the helper looks a host up
    hret            \* what the helper returned to the script

helperVars == <<hfn, hargs, hnow, hdns, hret>>

vars == <<evalVars, parseVars, cfgVars, loadVars, helperVars>>

\* a step of one part of the package leaves the variables of the others alone
EvalOnly == UNCHANGED <<parseVars, cfgVars, loadVars, helperVars>>
ParseOnly == UNCHANGED <<evalVars, cfgVars, loadVars, helperVars>>
ConfigOnly == UNCHANGED <<evalVars, parseVars, loadVars, helperVars>>
LoadOnly == UNCHANGED <<evalVars, parseVars, cfgVars, helperVars>>
HelperOnly == UNCHANGED <<evalVars, parseVars, cfgVars, loadVars>>

(***************************************************************************)
(* Built-in defaults (proxy.go), durations in milliseconds.                *)
(***************************************************************************)
defaultHTTPTimeout == 10 * 1000
defaultScriptTimeout == 5 * 1000
defaultDNSLookupTimeout == 2 * 1000
defaultMaxScriptSize == 2 ^ 20

(***************************************************************************)
(* FindProxyStringForURL / evalWithTimeout                                 *)
(***************************************************************************)
NoResult == [value |-> NilValue, err |-> Nil]

NewHist(after, isAlone) ==
    [timedOut |-> FALSE, intrIssued |-> FALSE, aborted |-> FALSE,
     afterTimeout |-> after, alone |-> isAlone]

NoReturn == [str |-> "", err |-> Nil]

NoCall == [valid |-> FALSE, kind |-> "string", hist |-> NewHist(FALSE, FALSE),
           ret |-> NoReturn]

InFlight(i) == pc[i] # "idle"

\* mutant: Lock does not wait for the holder
CanLockNoExclusion(i) == TRUE

\* sync.Mutex: Lock succeeds only while nobody holds the mutex
CanLock(i) == mu = 0

\* what the called FindProxyForURL yields when it runs to its end:
\* (value, callErr) of fn(goja.Undefined(), url, host)
ScriptReturn(k) ==
    CASE k = "string" -> [value |-> StringValue(PacString), err |-> Nil]
      [] k = "number" -> [value |-> NumberValue, err |-> Nil]
      [] OTHER        -> [value |-> NilValue, err |-> ScriptException]

\* the closure passed to evalWithTimeout, after the call returned
\* (value, callErr): a call error is wrapped into ErrEvaluatePAC
FnResult(value, callErr) ==
    IF ~callErr.nil
    THEN [value |-> NilValue, err |-> ErrorfWV(ErrEvaluatePAC, callErr)]
    ELSE [value |-> value, err |-> Nil]

\* the closure when the script has no callable FindProxyForURL
FnMissing == [value |-> NilValue, err |-> ErrEvaluatePAC]

\* mutant: the exported value is returned without the string type check
FindProxyStringResultUnchecked(value, err) ==
    IF ~err.nil THEN [str |-> "", err |-> err]
    ELSE [str |-> value.s, err |-> Nil]

\* the tail of FindProxyStringForURL: from evalWithTimeout's (result, err)
\* to the returned (ProxyString, error)
FindProxyStringResult(value, err) ==
    IF ~err.nil THEN [str |-> "", err |-> err]
    ELSE IF value.type # "string" THEN [str |-> "", err |-> ErrConvertResult]
    ELSE [str |-> value.s, err |-> Nil]

\* the error evalWithTimeout returns once it interrupted and then received res
AfterInterruptErr(err) == IF err.nil THEN ErrPACScriptTimeout ELSE err

InitEval ==
    /\ scriptTimeout \in {0, defaultScriptTimeout}
    /\ fnDefined \in BOOLEAN
    /\ mu = 0
    /\ interrupted = FALSE
    /\ pc = [i \in Procs |-> "idle"]
    /\ wpc = [i \in Procs |-> "none"]
    /\ kind = [i \in Procs |-> "string"]
    /\ wres = [i \in Procs |-> NoResult]
    /\ resultCh = [i \in Procs |-> <<>>]
    /\ hist = [i \in Procs |-> NewHist(FALSE, FALSE)]
    /\ last = NoCall
    /\ ncalls = 0
    /\ sawTimeout = FALSE

\* FindProxyStringForURL is called: evalWithTimeout either runs fn itself
\* under the lock (timeout disabled) or starts the worker goroutine
StartCall(i, k) ==
    /\ pc[i] = "idle"
    /\ ncalls < MaxCalls
    /\ ncalls' = ncalls + 1
    /\ pc' = [pc EXCEPT ![i] = IF scriptTimeout <= 0 THEN "sync" ELSE "waitStarted"]
    /\ wpc' = [wpc EXCEPT ![i] = "lock"]
    /\ kind' = [kind EXCEPT ![i] = k]
    /\ wres' = [wres EXCEPT ![i] = NoResult]
    /\ resultCh' = [resultCh EXCEPT ![i] = <<>>]
    /\ hist' = [j \in Procs |->
                  IF j = i
                  THEN NewHist(sawTimeout, \A o \in Procs \ {i} : ~InFlight(o))
                  ELSE IF InFlight(j) THEN [hist[j] EXCEPT !.alone = FALSE]
                  ELSE hist[j]]
    /\ UNCHANGED <<scriptTimeout, fnDefined, mu, interrupted, last, sawTimeout>>
    /\ EvalOnly

\* p.mu.Lock() (and close(started) in the worker)
Lock(i) ==
    /\ wpc[i] = "lock"
    /\ CanLock(i)
    /\ mu' = i
    /\ wpc' = [wpc EXCEPT ![i] = "fn"]
    /\ UNCHANGED <<scriptTimeout, fnDefined, interrupted, pc, kind, wres,
                   resultCh, last, hist, ncalls, sawTimeout>>
    /\ EvalOnly

\* mutant: the caller starts its timer without waiting for started
StartedWithoutWaiting(i) ==
    /\ pc[i] = "waitStarted"
    /\ pc' = [pc EXCEPT ![i] = "select"]
    /\ UNCHANGED <<scriptTimeout, fnDefined, mu, interrupted, wpc, kind, wres,
                   resultCh, last, hist, ncalls, sawTimeout>>
    /\ EvalOnly

\* <-started; timer := time.NewTimer(p.scriptTimeout)
Started(i) ==
    /\ pc[i] = "waitStarted"
    /\ wpc[i] # "lock"
    /\ pc' = [pc EXCEPT ![i] = "select"]
    /\ UNCHANGED <<scriptTimeout, fnDefined, mu, interrupted, wpc, kind, wres,
                   resultCh, last, hist, ncalls, sawTimeout>>
    /\ EvalOnly

\* fn begins: goja.AssertFunction(p.vm.Get("FindProxyForURL"))
FnEnter(i) ==
    /\ wpc[i] = "fn"
    /\ IF fnDefined
       THEN /\ wpc' = [wpc EXCEPT ![i] = "vm"]
            /\ wres' = wres
       ELSE /\ wpc' = [wpc EXCEPT ![i] = "unlock"]
            /\ wres' = [wres EXCEPT ![i] = FnMissing]
    /\ UNCHANGED <<scriptTimeout, fnDefined, mu, interrupted, pc, kind,
                   resultCh, last, hist, ncalls, sawTimeout>>
    /\ EvalOnly

\* the interpreter runs FindProxyForURL.  Before each instruction it tests
\* the interrupt flag: when set, it clears it and the call returns an
\* InterruptedError; otherwise a terminating script reaches its end.
VMStep(i) ==
    /\ wpc[i] = "vm"
    /\ IF interrupted
       THEN /\ interrupted' = FALSE
            /\ wres' = [wres EXCEPT ![i] =
                          FnResult(NilValue, InterruptedError("ErrPACScriptTimeout"))]
            /\ hist' = [hist EXCEPT ![i].aborted = TRUE]
       ELSE /\ kind[i] # "loop"
            /\ wres' = [wres EXCEPT ![i] =
                          FnResult(ScriptReturn(kind[i]).value, ScriptReturn(kind[i]).err)]
            /\ UNCHANGED <<interrupted, hist>>
    /\ wpc' = [wpc EXCEPT ![i] = "unlock"]
    /\ UNCHANGED <<scriptTimeout, fnDefined, mu, pc, kind, resultCh, last,
                   ncalls, sawTimeout>>
    /\ EvalOnly

\* FindProxyStringForURL returns to its caller
Return(i, value, err) ==
    /\ pc' = [pc EXCEPT ![i] = "idle"]
    /\ last' = [valid |-> TRUE, kind |-> kind[i], hist |-> hist[i],
                ret |-> FindProxyStringResult(value, err)]
    /\ kind' = [kind EXCEPT ![i] = "string"]
    /\ wres' = [wres EXCEPT ![i] = NoResult]
    /\ hist' = [hist EXCEPT ![i] = NewHist(FALSE, FALSE)]
    /\ sawTimeout' = (sawTimeout \/ hist[i].intrIssued)

\* mutant: the worker publishes its result without releasing the lock
UnlockForgotten(i) ==
    /\ wpc[i] = "unlock"
    /\ IF scriptTimeout <= 0
       THEN /\ mu' = 0
            /\ wpc' = [wpc EXCEPT ![i] = "none"]
            /\ Return(i, wres[i].value, wres[i].err)
       ELSE /\ mu' = mu
            /\ wpc' = [wpc EXCEPT ![i] = "publish"]
            /\ UNCHANGED <<pc, kind, wres, hist, last, sawTimeout>>
    /\ UNCHANGED <<scriptTimeout, fnDefined, interrupted, resultCh, ncalls>>
    /\ EvalOnly

\* p.mu.Unlock(); with the timeout disabled this is the deferred unlock and
\* evalWithTimeout returns fn's result as it is
Unlock(i) ==
    /\ wpc[i] = "unlock"
    /\ mu' = 0
    /\ IF scriptTimeout <= 0
       THEN /\ wpc' = [wpc EXCEPT ![i] = "none"]
            /\ Return(i, wres[i].value, wres[i].err)
       ELSE /\ wpc' = [wpc EXCEPT ![i] = "publish"]
            /\ UNCHANGED <<pc, kind, wres, hist, last, sawTimeout>>
    /\ UNCHANGED <<scriptTimeout, fnDefined, interrupted, resultCh, ncalls>>
    /\ EvalOnly

\* resultCh <- pacEvalResult{value, err}
Publish(i) ==
    /\ wpc[i] = "publish"
    /\ Len(resultCh[i]) < 1
    /\ resultCh' = [resultCh EXCEPT ![i] = Append(resultCh[i], wres[i])]
    /\ wres' = [wres EXCEPT ![i] = NoResult]
    /\ wpc' = [wpc EXCEPT ![i] = "none"]
    /\ UNCHANGED <<scriptTimeout, fnDefined, mu, interrupted, pc, kind,
                   hist, last, ncalls, sawTimeout>>
    /\ EvalOnly

\* select: case res := <-resultCh
SelectResult(i) ==
    /\ pc[i] = "select"
    /\ resultCh[i] # <<>>
    /\ resultCh' = [resultCh EXCEPT ![i] = Tail(resultCh[i])]
    /\ Return(i, Head(resultCh[i]).value, normalizePACError(Head(resultCh[i]).err))
    /\ UNCHANGED <<scriptTimeout, fnDefined, mu, interrupted, wpc, ncalls>>
    /\ EvalOnly

\* select: case <-timer.C
SelectTimer(i) ==
    /\ pc[i] = "select"
    /\ pc' = [pc EXCEPT ![i] = "recheck"]
    /\ hist' = [hist EXCEPT ![i].timedOut = TRUE]
    /\ UNCHANGED <<scriptTimeout, fnDefined, mu, interrupted, wpc, kind, wres,
                   resultCh, last, ncalls, sawTimeout>>
    /\ EvalOnly

\* mutant: after the timer fired the caller interrupts without the re-check
RecheckSkipped(i) ==
    /\ pc[i] = "recheck"
    /\ pc' = [pc EXCEPT ![i] = "interrupt"]
    /\ UNCHANGED <<resultCh, kind, wres, hist, last, sawTimeout>>
    /\ UNCHANGED <<scriptTimeout, fnDefined, mu, interrupted, wpc, ncalls>>
    /\ EvalOnly

\* the non-blocking re-check of resultCh after the timer fired
Recheck(i) ==
    /\ pc[i] = "recheck"
    /\ IF resultCh[i] # <<>>
       THEN /\ resultCh' = [resultCh EXCEPT ![i] = Tail(resultCh[i])]
            /\ Return(i, Head(resultCh[i]).value, normalizePACError(Head(resultCh[i]).err))
       ELSE /\ pc' = [pc EXCEPT ![i] = "interrupt"]
            /\ UNCHANGED <<resultCh, kind, wres, hist, last, sawTimeout>>
    /\ UNCHANGED <<scriptTimeout, fnDefined, mu, interrupted, wpc, ncalls>>
    /\ EvalOnly

\* mutant: the timeout branch goes on to wait without calling Interrupt
InterruptSkipped(i) ==
    /\ pc[i] = "interrupt"
    /\ pc' = [pc EXCEPT ![i] = "recv"]
    /\ hist' = [hist EXCEPT ![i].intrIssued = TRUE]
    /\ UNCHANGED <<scriptTimeout, fnDefined, mu, interrupted, wpc, kind, wres,
                   resultCh, last, ncalls, sawTimeout>>
    /\ EvalOnly

\* p.vm.Interrupt(ErrPACScriptTimeout): sets the runtime's interrupt flag,
\* whether or not a script is running
Interrupt(i) ==
    /\ pc[i] = "interrupt"
    /\ interrupted' = TRUE
    /\ pc' = [pc EXCEPT ![i] = "recv"]
    /\ hist' = [hist EXCEPT ![i].intrIssued = TRUE]
    /\ UNCHANGED <<scriptTimeout, fnDefined, mu, wpc, kind, wres, resultCh,
                   last, ncalls, sawTimeout>>
    /\ EvalOnly

\* res := <-resultCh after the interrupt; a nil error becomes the timeout
RecvAfterInterrupt(i) ==
    /\ pc[i] = "recv"
    /\ resultCh[i] # <<>>
    /\ resultCh' = [resultCh EXCEPT ![i] = Tail(resultCh[i])]
    /\ Return(i, Head(resultCh[i]).value,
              normalizePACError(AfterInterruptErr(Head(resultCh[i]).err)))
    /\ UNCHANGED <<scriptTimeout, fnDefined, mu, interrupted, wpc, ncalls>>
    /\ EvalOnly

\* the steps of the goroutine that runs fn (the caller itself when the
\* timeout is disabled)
Worker(i) == FnEnter(i) \/ VMStep(i) \/ Unlock(i) \/ Publish(i)

\* the steps of the caller inside evalWithTimeout
Caller(i) ==
    \/ Started(i) \/ SelectResult(i) \/ SelectTimer(i)
    \/ Recheck(i) \/ Interrupt(i) \/ RecvAfterInterrupt(i)

NextEval ==
    \/ \E i \in Procs, k \in Kinds : StartCall(i, k)
    \/ \E i \in Procs : Lock(i)
    \/ \E i \in Procs : Worker(i)
    \/ \E i \in Procs : Caller(i)

(***************************************************************************)
(* ProxyString.Parse.  A string is a sequence of lexemes: the keywords,    *)
(* the blank, the semicolon, host:port texts and other text.               *)
(***************************************************************************)
\* number of directives in a generated ProxyString
MaxTokens == 3

Hosts == {"a:1", "b:2"}

\* the raw (untrimmed) directives the inputs are built from
TokenShapes ==
    { <<>>, <<" ">>, <<"x">>, <<"x", " ", "a:1">>, <<"x", "PROXY", " ", "a:1">>,
      <<"DIRECT">>, <<" ", "DIRECT", " ">>, <<"DIRECT", "x">>,
      <<"PROXY", " ", "a:1">>, <<" ", "PROXY", " ", "b:2", " ">>,
      <<"PROXY">>, <<"PROXY", "a:1">>, <<"PROXY", " ", " ", "a:1">>,
      <<"SOCKS", " ", "a:1">>, <<"SOCKS", " ", "b:2">>, <<"SOCKS", "x">> }

\* strings.Join(toks, ";")
RECURSIVE Join(_)
Join(toks) ==
    IF toks = <<>> THEN <<>>
    ELSE IF Len(toks) = 1 THEN toks[1]
    ELSE toks[1] \o <<";">> \o Join(Tail(toks))

\* strings.Split(s, ";")
RECURSIVE SplitFrom(_, _)
SplitFrom(s, cur) ==
    IF s = <<>> THEN <<cur>>
    ELSE IF Head(s) = ";" THEN <<cur>> \o SplitFrom(Tail(s), <<>>)
    ELSE SplitFrom(Tail(s), Append(cur, Head(s)))

Split(s) == SplitFrom(s, <<>>)

\* strings.TrimSpace
RECURSIVE TrimLeft(_)
TrimLeft(t) == IF t # <<>> /\ Head(t) = " " THEN TrimLeft(Tail(t)) ELSE t

RECURSIVE TrimRight(_)
TrimRight(t) ==
    IF t # <<>> /\ t[Len(t)] = " " THEN TrimRight(SubSeq(t, 1, Len(t) - 1)) ELSE t

TrimSpace(t) == TrimRight(TrimLeft(t))

\* strings.HasPrefix
HasPrefix(t, prefix) ==
    Len(t) >= Len(prefix) /\ SubSeq(t, 1, Len(prefix)) = prefix

\* strings.TrimPrefix
TrimPrefix(t, prefix) ==
    IF HasPrefix(t, prefix) THEN SubSeq(t, Len(prefix) + 1, Len(t)) ELSE t

\* the *url.Error of url.Parse
UrlError == [nil |-> FALSE, type |-> "url.Error", chain |-> {}, intr |-> "none"]

ErrNoValidProxy == Sentinel("ErrNoValidProxy")

NilURL == [scheme |-> "", host |-> <<>>]

\* url.Parse(scheme + "://" + rest): a blank in the authority is rejected
urlParse(scheme, rest) ==
    IF \E k \in 1..Len(rest) : rest[k] = " "
    THEN [url |-> NilURL, err |-> UrlError]
    ELSE [url |-> [scheme |-> scheme, host |-> rest], err |-> Nil]

\* the loop of Parse over the split directives, from directive k on
RECURSIVE parseFrom(_, _)
parseFrom(proxies, k) ==
    IF k > Len(proxies) THEN [url |-> NilURL, err |-> ErrNoValidProxy]
    ELSE LET proxy == TrimSpace(proxies[k]) IN
         IF HasPrefix(proxy, <<"DIRECT">>) THEN [url |-> NilURL, err |-> Nil]
         ELSE IF HasPrefix(proxy, <<"PROXY">>)
              THEN urlParse("http", TrimPrefix(proxy, <<"PROXY", " ">>))
         ELSE IF HasPrefix(proxy, <<"SOCKS">>)
              THEN urlParse("socks5", TrimPrefix(proxy, <<"SOCKS", " ">>))
         ELSE parseFrom(proxies, k + 1)

\* the sequence in reverse order
RECURSIVE Reverse(_)
Reverse(q) == IF q = <<>> THEN <<>> ELSE Append(Reverse(Tail(q)), Head(q))

\* mutant: the directives are tried from the last to the first
ParseLastWins(s) == parseFrom(Reverse(Split(s)), 1)

\* ProxyString.Parse
Parse(s) == parseFrom(Split(s), 1)

NotParsed == [done |-> FALSE, url |-> NilURL, err |-> Nil]

TokenLists ==
    UNION { [1..n -> TokenShapes] : n \in 1..MaxTokens }

InitParse ==
    /\ tokens \in TokenLists
    /\ ps = Join(tokens)
    /\ parsed = NotParsed

\* ps.Parse()
DoParse ==
    /\ ~parsed.done
    /\ parsed' = [done |-> TRUE, url |-> Parse(ps).url, err |-> Parse(ps).err]
    /\ UNCHANGED <<tokens, ps>>
    /\ ParseOnly

\* the variables of the parser while the evaluator is modelled
IdleParse ==
    /\ tokens = <<>>
    /\ ps = <<>>
    /\ parsed = NotParsed

\* the variables of the evaluator while another part is modelled
IdleEval ==
    /\ scriptTimeout = defaultScriptTimeout
    /\ fnDefined = TRUE
    /\ mu = 0
    /\ interrupted = FALSE
    /\ pc = [i \in Procs |-> "idle"]
    /\ wpc = [i \in Procs |-> "none"]
    /\ kind = [i \in Procs |-> "string"]
    /\ wres = [i \in Procs |-> NoResult]
    /\ resultCh = [i \in Procs |-> <<>>]
    /\ hist = [i \in Procs |-> NewHist(FALSE, FALSE)]
    /\ last = NoCall
    /\ ncalls = 0
    /\ sawTimeout = FALSE

(***************************************************************************)
(* normalizePACProxyConfig                                                 *)
(***************************************************************************)
\* the option values tried are -CfgRange..CfgRange
CfgRange == 2

CfgValues == (0 - CfgRange)..CfgRange

\* a nil *http.Client, a client supplied by the caller, a client built by
\* the package with the given Timeout
NilClient == [kind |-> "nil", Timeout |-> 0]
CallerClient == [kind |-> "caller", Timeout |-> 10 * 1000]
BuiltClient(timeout) == [kind |-> "built", Timeout |-> timeout]

\* a nil *PACProxyConfig
NilConfig == [isNil |-> TRUE, Client |-> NilClient, MaxScriptSize |-> 0,
              ScriptTimeout |-> 0, DNSLookupTimeout |-> 0, HTTPTimeout |-> 0]

\* PACProxyConfig{}
ZeroConfig == [NilConfig EXCEPT !.isNil = FALSE]

Configs ==
    {NilConfig} \cup
    [isNil : {FALSE}, Client : {NilClient, CallerClient}, MaxScriptSize : CfgValues,
     ScriptTimeout : CfgValues, DNSLookupTimeout : CfgValues, HTTPTimeout : CfgValues]

\* mutant: a negative ScriptTimeout is kept instead of being mapped to 0
normalizeKeepsNegativeScriptTimeout(c) ==
    LET c0 == IF c.isNil THEN ZeroConfig ELSE c
        c1 == [c0 EXCEPT !.HTTPTimeout =
                 IF @ = 0 THEN defaultHTTPTimeout ELSE IF @ < 0 THEN 0 ELSE @]
        c2 == [c1 EXCEPT !.ScriptTimeout =
                 IF @ = 0 THEN defaultScriptTimeout ELSE @]
        c3 == [c2 EXCEPT !.DNSLookupTimeout =
                 IF @ = 0 THEN defaultDNSLookupTimeout ELSE IF @ < 0 THEN 0 ELSE @]
        c4 == [c3 EXCEPT !.MaxScriptSize =
                 IF @ = 0 THEN defaultMaxScriptSize ELSE IF @ < 0 THEN 0 ELSE @]
    IN  [c4 EXCEPT !.Client =
           IF @ = NilClient THEN BuiltClient(c4.HTTPTimeout) ELSE @]

normalizePACProxyConfig(c) ==
    LET c0 == IF c.isNil THEN ZeroConfig ELSE c
        c1 == [c0 EXCEPT !.HTTPTimeout =
                 IF @ = 0 THEN defaultHTTPTimeout ELSE IF @ < 0 THEN 0 ELSE @]
        c2 == [c1 EXCEPT !.ScriptTimeout =
                 IF @ = 0 THEN defaultScriptTimeout ELSE IF @ < 0 THEN 0 ELSE @]
        c3 == [c2 EXCEPT !.DNSLookupTimeout =
                 IF @ = 0 THEN defaultDNSLookupTimeout ELSE IF @ < 0 THEN 0 ELSE @]
        c4 == [c3 EXCEPT !.MaxScriptSize =
                 IF @ = 0 THEN defaultMaxScriptSize ELSE IF @ < 0 THEN 0 ELSE @]
    IN  [c4 EXCEPT !.Client =
           IF @ = NilClient THEN BuiltClient(c4.HTTPTimeout) ELSE @]

\* no configuration normalised yet
NoCfg == [done |-> FALSE, out |-> ZeroConfig]

InitConfig ==
    /\ config \in Configs
    /\ cfg = NoCfg

\* cfg := normalizePACProxyConfig(config)
DoNormalize ==
    /\ ~cfg.done
    /\ cfg' = [done |-> TRUE, out |-> normalizePACProxyConfig(config)]
    /\ UNCHANGED config
    /\ ConfigOnly

IdleConfig ==
    /\ config = NilConfig
    /\ cfg = NoCfg

(***************************************************************************)
(* NewPACProxy, readPACScript, runWithTimeout                              *)
(***************************************************************************)
\* the largest positive MaxScriptSize tried
MaxSize == 2
\* body lengths and declared lengths tried: 0..MaxSize+BodySlack
BodySlack == 1

http_StatusOK == 200

SizeInputs == {-1, 0} \cup (1..MaxSize)

BodyLens == (0..(MaxSize + BodySlack)) \cup {defaultMaxScriptSize, defaultMaxScriptSize + 1}

\* resp.ContentLength: -1 when the length is not declared
ContentLengths == {-1} \cup BodyLens

LoadConfigs ==
    [isNil : {FALSE}, Client : {CallerClient}, MaxScriptSize : SizeInputs,
     ScriptTimeout : {-1, 0}, DNSLookupTimeout : {0}, HTTPTimeout : {0}]

TopKinds == {"ok", "throw", "loop"}

\* the transport error of client.Get, the I/O error of the body reader
TransportError == [nil |-> FALSE, type |-> "url.Error", chain |-> {}, intr |-> "none"]
IOError == [nil |-> FALSE, type |-> "ioError", chain |-> {}, intr |-> "none"]
DefineError == [nil |-> FALSE, type |-> "defineErr", chain |-> {}, intr |-> "none"]

NoResp == [err |-> Nil, StatusCode |-> 0, ContentLength |-> -1, bodyLen |-> 0,
           bodyFails |-> FALSE]

NoStages == [stages |-> <<>>, timerFired |-> FALSE, intrIssued |-> FALSE,
             defineErr |-> FALSE]

NotReturned == [done |-> FALSE, inst |-> "nil", err |-> Nil]

\* the order of the stages of NewPACProxy
StageOrder == <<"fetch", "status", "size", "read", "bind", "run">>

\* readPACScript(r, maxSize): the body holds bodyLen bytes and then ends
\* with EOF, or with an I/O error when bodyFails.  With a limit, at most
\* maxSize+1 bytes are read (io.LimitReader) and the end of a longer
\* body is never reached.
readPACScript(bodyLen, bodyFails, maxSize) ==
    IF maxSize <= 0
    THEN IF bodyFails THEN [n |-> -1, err |-> IOError] ELSE [n |-> bodyLen, err |-> Nil]
    ELSE LET data == IF bodyLen < maxSize + 1 THEN bodyLen ELSE maxSize + 1
             err == IF bodyLen < maxSize + 1 /\ bodyFails THEN IOError ELSE Nil
         IN  IF ~err.nil THEN [n |-> -1, err |-> err]
             ELSE IF data > maxSize THEN [n |-> -1, err |-> ErrPACScriptTooLarge]
             ELSE [n |-> data, err |-> Nil]

\* the declared-size check of NewPACProxy
DeclaredTooLarge(c, r) == c.MaxScriptSize > 0 /\ r.ContentLength > c.MaxScriptSize

\* what vm.RunString yields when the top-level code runs to its end
TopLevelReturn(k) == IF k = "ok" THEN Nil ELSE ScriptException

InitLoad ==
    /\ lconfig \in LoadConfigs
    /\ lcfg = ZeroConfig
    /\ lpc = "start"
    /\ resp = NoResp
    /\ script = -1
    /\ topKind = "ok"
    /\ vmInterrupted = FALSE
    /\ lwpc = "none"
    /\ lwres = Nil
    /\ lresultCh = <<>>
    /\ lhist = NoStages
    /\ result = NotReturned

IdleLoad ==
    /\ lconfig = ZeroConfig
    /\ lcfg = ZeroConfig
    /\ lpc = "start"
    /\ resp = NoResp
    /\ script = -1
    /\ topKind = "ok"
    /\ vmInterrupted = FALSE
    /\ lwpc = "none"
    /\ lwres = Nil
    /\ lresultCh = <<>>
    /\ lhist = NoStages
    /\ result = NotReturned

\* return nil, err
LoadFail(err) ==
    /\ result' = [done |-> TRUE, inst |-> "nil", err |-> err]
    /\ lpc' = "done"

\* return &PACProxy{...}, nil
LoadOK ==
    /\ result' = [done |-> TRUE, inst |-> "PACProxy", err |-> Nil]
    /\ lpc' = "done"

Enter(stage) == lhist' = [lhist EXCEPT !.stages = Append(@, stage)]

\* cfg := normalizePACProxyConfig(config)
LNormalize ==
    /\ lpc = "start"
    /\ lcfg' = normalizePACProxyConfig(lconfig)
    /\ lpc' = "fetch"
    /\ UNCHANGED <<lconfig, resp, script, topKind, vmInterrupted, lwpc, lwres,
                   lresultCh, lhist, result>>
    /\ LoadOnly

\* resp, err := client.Get(pacURLStr)
Fetch(failed, status, length, bodyLen, bodyFails) ==
    /\ lpc = "fetch"
    /\ Enter("fetch")
    /\ IF failed
       THEN /\ resp' = [NoResp EXCEPT !.err = TransportError]
            /\ LoadFail(ErrorfWV(ErrFetchPACScript, TransportError))
       ELSE /\ resp' = [err |-> Nil, StatusCode |-> status, ContentLength |-> length,
                        bodyLen |-> bodyLen, bodyFails |-> bodyFails]
            /\ lpc' = "status"
            /\ UNCHANGED result
    /\ UNCHANGED <<lconfig, lcfg, script, topKind, vmInterrupted, lwpc, lwres, lresultCh>>
    /\ LoadOnly

\* mutant: the status code is not looked at
CheckStatusIgnored ==
    /\ lpc = "status"
    /\ Enter("status")
    /\ lpc' = "size"
    /\ UNCHANGED <<lconfig, lcfg, resp, script, topKind, vmInterrupted, lwpc,
                   lwres, lresultCh, result>>
    /\ LoadOnly

\* if resp.StatusCode != http.StatusOK
CheckStatus ==
    /\ lpc = "status"
    /\ Enter("status")
    /\ IF resp.StatusCode # http_StatusOK
       THEN LoadFail(ErrorfWV(ErrFetchPACScript, Nil))
       ELSE lpc' = "size" /\ UNCHANGED result
    /\ UNCHANGED <<lconfig, lcfg, resp, script, topKind, vmInterrupted, lwpc,
                   lwres, lresultCh>>
    /\ LoadOnly

\* if cfg.MaxScriptSize > 0 && resp.ContentLength > cfg.MaxScriptSize
CheckSize ==
    /\ lpc = "size"
    /\ Enter("size")
    /\ IF DeclaredTooLarge(lcfg, resp)
       THEN LoadFail(ErrPACScriptTooLarge)
       ELSE lpc' = "read" /\ UNCHANGED result
    /\ UNCHANGED <<lconfig, lcfg, resp, script, topKind, vmInterrupted, lwpc,
                   lwres, lresultCh>>
    /\ LoadOnly

\* script, err := readPACScript(resp.Body, cfg.MaxScriptSize)
Read ==
    /\ lpc = "read"
    /\ Enter("read")
    /\ LET r == readPACScript(resp.bodyLen, resp.bodyFails, lcfg.MaxScriptSize) IN
         IF ~r.err.nil
         THEN /\ LoadFail(ErrorfWV(ErrReadPACScript, r.err))
              /\ UNCHANGED script
         ELSE /\ script' = r.n
              /\ lpc' = "bind"
              /\ UNCHANGED result
    /\ UNCHANGED <<lconfig, lcfg, resp, topKind, vmInterrupted, lwpc, lwres, lresultCh>>
    /\ LoadOnly

\* vm.DefinePACFunctions(); vmDefineError(vm)
Bind(failed) ==
    /\ lpc = "bind"
    /\ lhist' = [lhist EXCEPT !.stages = Append(@, "bind"), !.defineErr = failed]
    /\ IF failed
       THEN LoadFail(ErrorfWV(ErrExecutePACScript, DefineError))
       ELSE lpc' = "run" /\ UNCHANGED result
    /\ UNCHANGED <<lconfig, lcfg, resp, script, topKind, vmInterrupted, lwpc,
                   lwres, lresultCh>>
    /\ LoadOnly

\* runWithTimeout is entered: fn runs in the caller (timeout disabled) or
\* in a new goroutine, and the timer is started
RunStart(k) ==
    /\ lpc = "run"
    /\ Enter("run")
    /\ topKind' = k
    /\ lwpc' = "vm"
    /\ lpc' = IF lcfg.ScriptTimeout <= 0 THEN "sync" ELSE "select"
    /\ UNCHANGED <<lconfig, lcfg, resp, script, vmInterrupted, lwres, lresultCh, result>>
    /\ LoadOnly

\* the end of NewPACProxy, from the error of runWithTimeout
Finish(err) ==
    IF ~err.nil THEN LoadFail(ErrorfWV(ErrExecutePACScript, err)) ELSE LoadOK

\* vm.RunString(script) in the interpreter: aborted when the interrupt flag
\* is set, else a terminating script reaches its end
TopVMStep ==
    /\ lwpc = "vm"
    /\ IF vmInterrupted
       THEN /\ vmInterrupted' = FALSE
            /\ lwres' = InterruptedError("ErrPACScriptTimeout")
       ELSE /\ topKind # "loop"
            /\ lwres' = TopLevelReturn(topKind)
            /\ UNCHANGED vmInterrupted
    /\ IF lpc = "sync"
       THEN /\ lwpc' = "none"
            /\ Finish(normalizePACError(lwres'))
       ELSE /\ lwpc' = "publish"
            /\ UNCHANGED <<lpc, result>>
    /\ UNCHANGED <<lconfig, lcfg, resp, script, topKind, lresultCh, lhist>>
    /\ LoadOnly

\* resultCh <- fn()
TopPublish ==
    /\ lwpc = "publish"
    /\ Len(lresultCh) < 1
    /\ lresultCh' = Append(lresultCh, lwres)
    /\ lwpc' = "none"
    /\ UNCHANGED <<lconfig, lcfg, lpc, resp, script, topKind, vmInterrupted, lwres,
                   lhist, result>>
    /\ LoadOnly

\* select: case err := <-resultCh
TopSelectResult ==
    /\ lpc = "select"
    /\ lresultCh # <<>>
    /\ lresultCh' = Tail(lresultCh)
    /\ Finish(normalizePACError(Head(lresultCh)))
    /\ UNCHANGED <<lconfig, lcfg, resp, script, topKind, vmInterrupted, lwpc, lwres, lhist>>
    /\ LoadOnly

\* select: case <-timer.C
TopSelectTimer ==
    /\ lpc = "select"
    /\ lpc' = "recheck"
    /\ lhist' = [lhist EXCEPT !.timerFired = TRUE]
    /\ UNCHANGED <<lconfig, lcfg, resp, script, topKind, vmInterrupted, lwpc, lwres,
                   lresultCh, result>>
    /\ LoadOnly

\* the non-blocking re-check of resultCh
TopRecheck ==
    /\ lpc = "recheck"
    /\ IF lresultCh # <<>>
       THEN /\ lresultCh' = Tail(lresultCh)
            /\ Finish(normalizePACError(Head(lresultCh)))
       ELSE /\ lpc' = "interrupt"
            /\ UNCHANGED <<lresultCh, result>>
    /\ UNCHANGED <<lconfig, lcfg, resp, script, topKind, vmInterrupted, lwpc, lwres, lhist>>
    /\ LoadOnly

\* vm.Interrupt(ErrPACScriptTimeout)
TopInterrupt ==
    /\ lpc = "interrupt"
    /\ vmInterrupted' = TRUE
    /\ lpc' = "recv"
    /\ lhist' = [lhist EXCEPT !.intrIssued = TRUE]
    /\ UNCHANGED <<lconfig, lcfg, resp, script, topKind, lwpc, lwres, lresultCh, result>>
    /\ LoadOnly

\* err := <-resultCh after the interrupt; nil becomes ErrPACScriptTimeout
TopRecv ==
    /\ lpc = "recv"
    /\ lresultCh # <<>>
    /\ lresultCh' = Tail(lresultCh)
    /\ Finish(IF Head(lresultCh).nil THEN ErrPACScriptTimeout
              ELSE normalizePACError(Head(lresultCh)))
    /\ UNCHANGED <<lconfig, lcfg, resp, script, topKind, vmInterrupted, lwpc, lwres, lhist>>
    /\ LoadOnly

NextLoad ==
    \/ LNormalize
    \/ \E failed \in BOOLEAN, status \in {http_StatusOK, 404}, length \in ContentLengths,
          bodyLen \in BodyLens, bodyFails \in BOOLEAN :
            Fetch(failed, status, length, bodyLen, bodyFails)
    \/ CheckStatus
    \/ CheckSize
    \/ Read
    \/ \E failed \in BOOLEAN : Bind(failed)
    \/ \E k \in TopKinds : RunStart(k)
    \/ TopVMStep
    \/ TopPublish
    \/ TopSelectResult
    \/ TopSelectTimer
    \/ TopRecheck
    \/ TopInterrupt
    \/ TopRecv

(***************************************************************************)
(* The PAC helper functions a script calls (DefinePACFunctions).  A        *)
(* JavaScript string is the sequence of its characters; a goja.Value is    *)
(* what the helpers can observe of it: its JavaScript type (t), its        *)
(* number when it is one (n, the integer part) and its characters (s).     *)
(***************************************************************************)
LowerCase == <<"a", "b", "c", "d", "e", "f", "g", "h", "i", "j", "k", "l", "m",
               "n", "o", "p", "q", "r", "s", "t", "u", "v", "w", "x", "y", "z">>
UpperCase == <<"A", "B", "C", "D", "E", "F", "G", "H", "I", "J", "K", "L", "M",
               "N", "O", "P", "Q", "R", "S", "T", "U", "V", "W", "X", "Y", "Z">>
Digits == <<"0", "1", "2", "3", "4", "5", "6", "7", "8", "9">>

\* the position of character c in alphabet, 0 when it is not in it
IndexOf(alphabet, c) ==
    IF \E i \in 1..Len(alphabet) : alphabet[i] = c
    THEN CHOOSE i \in 1..Len(alphabet) : alphabet[i] = c
    ELSE 0

\* strings.ToUpper
ToUpper(s) ==
    [i \in 1..Len(s) |->
        IF IndexOf(LowerCase, s[i]) > 0 THEN UpperCase[IndexOf(LowerCase, s[i])]
        ELSE s[i]]

\* strings.EqualFold
EqualFold(s, u) == ToUpper(s) = ToUpper(u)

\* the value of a sequence of decimal digits
RECURSIVE DigitsValue(_)
DigitsValue(s) ==
    IF s = <<>> THEN 0
    ELSE 10 * DigitsValue(SubSeq(s, 1, Len(s) - 1)) + (IndexOf(Digits, s[Len(s)]) - 1)

AllDigits(s) == s # <<>> /\ \A i \in 1..Len(s) : IndexOf(Digits, s[i]) > 0

\* strconv.Atoi: an optional sign and at least one decimal digit
Atoi(s) ==
    IF s # <<>> /\ Head(s) \in {"+", "-"}
    THEN IF AllDigits(Tail(s))
         THEN [n |-> IF Head(s) = "-" THEN 0 - DigitsValue(Tail(s))
                     ELSE DigitsValue(Tail(s)),
               ok |-> TRUE]
         ELSE [n |-> 0, ok |-> FALSE]
    ELSE IF AllDigits(s) THEN [n |-> DigitsValue(s), ok |-> TRUE]
         ELSE [n |-> 0, ok |-> FALSE]

\* the decimal digits of a natural number
RECURSIVE NatString(_)
NatString(n) ==
    IF n < 10 THEN <<Digits[n + 1]>>
    ELSE Append(NatString(n \div 10), Digits[(n % 10) + 1])

\* goja.Value constructors: a whole number, a number with a fraction, a
\* string, and the value undefined
ArgInt(n) == [t |-> "int", n |-> n, s |-> <<>>]
ArgFloat(n) == [t |-> "float", n |-> n, s |-> <<>>]
ArgString(s) == [t |-> "string", n |-> 0, s |-> s]
ArgUndefined == [t |-> "undefined", n |-> 0, s |-> <<>>]

\* goja.Value.String(); of a number with a fraction only the fact that it
\* has a decimal point matters
ValueString(v) ==
    CASE v.t = "string" -> v.s
      [] v.t = "undefined" -> <<"u", "n", "d", "e", "f", "i", "n", "e", "d">>
      [] v.t = "int" -> IF v.n < 0 THEN <<"-">> \o NatString(0 - v.n) ELSE NatString(v.n)
      [] v.t = "float" ->
            (IF v.n < 0 THEN <<"-">> \o NatString(0 - v.n) ELSE NatString(v.n))
                \o <<".", "5">>

isGMTArg(v) == EqualFold(TrimSpace(ValueString(v)), <<"G", "M", "T">>)

\* splitArgsAndLocation: a trailing GMT argument selects UTC and is dropped
splitArgsAndLocation(args) ==
    IF args = <<>> THEN [args |-> args, loc |-> "Local"]
    ELSE IF isGMTArg(args[Len(args)])
         THEN [args |-> SubSeq(args, 1, Len(args) - 1), loc |-> "UTC"]
         ELSE [args |-> args, loc |-> "Local"]

\* parseIntArg: whole numbers, and strings (or the text of any other value)
\* that strconv.Atoi accepts after trimming
parseIntArg(v) ==
    CASE v.t = "int" -> [n |-> v.n, ok |-> TRUE]
      [] v.t = "float" -> [n |-> 0, ok |-> FALSE]
      [] v.t = "string" -> Atoi(TrimSpace(v.s))
      [] OTHER -> Atoi(TrimSpace(ValueString(v)))

\* s[:3] when len(s) >= 3
FirstThree(s) == IF Len(s) >= 3 THEN SubSeq(s, 1, 3) ELSE s

weekdayNames ==
    <<<<"S", "U", "N">>, <<"M", "O", "N">>, <<"T", "U", "E">>, <<"W", "E", "D">>,
      <<"T", "H", "U">>, <<"F", "R", "I">>, <<"S", "A", "T">>>>

monthNames ==
    <<<<"J", "A", "N">>, <<"F", "E", "B">>, <<"M", "A", "R">>, <<"A", "P", "R">>,
      <<"M", "A", "Y">>, <<"J", "U", "N">>, <<"J", "U", "L">>, <<"A", "U", "G">>,
      <<"S", "E", "P">>, <<"O", "C", "T">>, <<"N", "O", "V">>, <<"D", "E", "C">>>>

\* parseWeekdayArg: a weekday name (its first three letters, any case), else
\* an integer 0..6
parseWeekdayArg(v) ==
    IF v.t = "string" /\ IndexOf(weekdayNames, FirstThree(ToUpper(TrimSpace(v.s)))) > 0
    THEN [day |-> IndexOf(weekdayNames, FirstThree(ToUpper(TrimSpace(v.s)))) - 1,
          ok |-> TRUE]
    ELSE IF parseIntArg(v).ok /\ parseIntArg(v).n >= 0 /\ parseIntArg(v).n <= 6
         THEN [day |-> parseIntArg(v).n, ok |-> TRUE]
         ELSE [day |-> 0, ok |-> FALSE]

\* the weekdayRange helper; now is the clock reading in the selected location
weekdayRange(arguments, now) ==
    LET args == splitArgsAndLocation(arguments).args
        wd1 == parseWeekdayArg(args[1])
        wd2 == parseWeekdayArg(args[2])
    IN  IF Len(args) = 0 \/ Len(args) > 2 THEN FALSE
        ELSE IF ~wd1.ok THEN FALSE
        ELSE IF Len(args) = 1 THEN now.weekday = wd1.day
        ELSE IF ~wd2.ok THEN FALSE
        ELSE IF wd1.day <= wd2.day
             THEN now.weekday >= wd1.day /\ now.weekday <= wd2.day
             ELSE now.weekday >= wd1.day \/ now.weekday <= wd2.day

(***************************************************************************)
(* Calendar dates as time.Time gives them: time.Date normalises a month    *)
(* outside 1..12 and a day outside the month into the neighbouring year or *)
(* month.                                                                  *)
(***************************************************************************)
IsLeap(y) == (y % 4 = 0 /\ y % 100 # 0) \/ y % 400 = 0

DaysIn(y, m) ==
    IF m = 2 THEN (IF IsLeap(y) THEN 29 ELSE 28)
    ELSE IF m \in {4, 6, 9, 11} THEN 30 ELSE 31

\* time.Date(year, month, day, 0, 0, 0, 0, loc)
RECURSIVE timeDate(_, _, _)
timeDate(y, m, d) ==
    IF m > 12 THEN timeDate(y + 1, m - 12, d)
    ELSE IF m < 1 THEN timeDate(y - 1, m + 12, d)
    ELSE IF d < 1
         THEN IF m = 1 THEN timeDate(y - 1, 12, d + DaysIn(y - 1, 12))
              ELSE timeDate(y, m - 1, d + DaysIn(y, m - 1))
    ELSE IF d > DaysIn(y, m) THEN timeDate(y, m + 1, d - DaysIn(y, m))
    ELSE [year |-> y, month |-> m, day |-> d]

\* Time.AddDate(years, 0, 0)
AddYears(t, years) == timeDate(t.year + years, t.month, t.day)

\* Time.Before and Time.After on dates at midnight of one location
Before(a, b) ==
    \/ a.year < b.year
    \/ a.year = b.year /\ a.month < b.month
    \/ a.year = b.year /\ a.month = b.month /\ a.day < b.day

After(a, b) == Before(b, a)

\* Time.Weekday(): 0 is Sunday
Weekday(y, m, d) ==
    LET a == (14 - m) \div 12
        yy == y + 4800 - a
        mm == m + 12 * a - 3
        jdn == d + ((153 * mm + 2) \div 5) + 365 * yy + (yy \div 4)
                 - (yy \div 100) + (yy \div 400) - 32045
    IN  (jdn + 1) % 7

\* the reading of the clock: a calendar date, its weekday and a time of day
Clock(y, m, d, h, mi, s) ==
    [year |-> y, month |-> m, day |-> d, weekday |-> Weekday(y, m, d),
     hour |-> h, minute |-> mi, second |-> s]

NoDateArg == [kind |-> "none", value |-> 0, ok |-> FALSE]

\* mutant: a two-digit year is taken as it is
normalizeYearKeeps(year) == year

normalizeYear(year) == IF year >= 0 /\ year < 100 THEN 1900 + year ELSE year

\* parseDateArg: a month name, else a positive integer: up to 31 a day of
\* the month, above it a year
parseDateArg(v) ==
    IF v.t = "string" /\ IndexOf(monthNames, FirstThree(ToUpper(TrimSpace(v.s)))) > 0
    THEN [kind |-> "month",
          value |-> IndexOf(monthNames, FirstThree(ToUpper(TrimSpace(v.s)))),
          ok |-> TRUE]
    ELSE IF ~parseIntArg(v).ok \/ parseIntArg(v).n <= 0 THEN NoDateArg
    ELSE IF parseIntArg(v).n <= 31
         THEN [kind |-> "day", value |-> parseIntArg(v).n, ok |-> TRUE]
         ELSE [kind |-> "year", value |-> normalizeYear(parseIntArg(v).n), ok |-> TRUE]

NoDate == [year |-> 0, month |-> 0, day |-> 0, ok |-> FALSE]

\* makeDate: the date when the day exists in the month, found by building
\* the date and reading it back
makeDate(year, month, day) ==
    IF day <= 0 THEN NoDate
    ELSE IF timeDate(year, month, day) # [year |-> year, month |-> month, day |-> day]
         THEN NoDate
         ELSE [year |-> year, month |-> month, day |-> day, ok |-> TRUE]

DateOf(t) == [year |-> t.year, month |-> t.month, day |-> t.day]

lastDayOfMonth(year, month) == timeDate(year, month + 1, 0).day

\* mutant: a range whose end precedes its start never spans the year boundary
dateRangeCompareNoWrap(current, start, end, allowWrap) ==
    ~Before(current, start) /\ ~After(current, end)

\* dateRangeCompare
dateRangeCompare(current, start, end, allowWrap) ==
    IF ~allowWrap \/ ~Before(end, start)
    THEN ~Before(current, start) /\ ~After(current, end)
    ELSE IF Before(current, start)
         THEN ~Before(current, AddYears(start, -1)) /\ ~After(current, end)
         ELSE ~Before(current, start) /\ ~After(current, AddYears(end, 1))

\* mutant: a day range whose end is below its start is not cyclic
dayRangeNoWrap(current, start, end) == current >= start /\ current <= end

dayRangeMatches(current, start, end) ==
    IF start <= end THEN current >= start /\ current <= end
    ELSE current >= start \/ current <= end

monthRangeMatches(current, start, end) ==
    IF start <= end THEN current >= start /\ current <= end
    ELSE current >= start \/ current <= end

yearRangeMatches(current, start, end) ==
    IF start <= end THEN current >= start /\ current <= end
    ELSE current >= start \/ current <= end

\* the kinds of the parsed arguments, in order
KindsOf(pargs) == [i \in 1..Len(pargs) |-> pargs[i].kind]

\* dateRangeMatches, once every argument has been parsed
\* mutant: the kinds are accepted in any order and number, each argument
\* being compared with its own field of the date
dateRangeParsedAnyOrder(p, now) ==
    \A i \in 1..Len(p) :
        CASE p[i].kind = "day" -> now.day = p[i].value
          [] p[i].kind = "month" -> now.month = p[i].value
          [] OTHER -> now.year = p[i].value

dateRangeParsed(p, now) ==
    LET k == KindsOf(p)
        current == DateOf(now)
    IN  CASE k = <<"day">> -> now.day = p[1].value
          [] k = <<"month">> -> now.month = p[1].value
          [] k = <<"year">> -> now.year = p[1].value
          [] k = <<"day", "day">> -> dayRangeMatches(now.day, p[1].value, p[2].value)
          [] k = <<"month", "month">> ->
                monthRangeMatches(now.month, p[1].value, p[2].value)
          [] k = <<"year", "year">> -> yearRangeMatches(now.year, p[1].value, p[2].value)
          [] k = <<"day", "month">> -> now.day = p[1].value /\ now.month = p[2].value
          [] k = <<"month", "year">> -> now.month = p[1].value /\ now.year = p[2].value
          [] k = <<"day", "month", "year">> ->
                now.day = p[1].value /\ now.month = p[2].value /\ now.year = p[3].value
          [] k = <<"day", "month", "day", "month">> ->
                LET start == makeDate(now.year, p[2].value, p[1].value)
                    end == makeDate(now.year, p[4].value, p[3].value)
                IN  IF ~start.ok \/ ~end.ok THEN FALSE
                    ELSE dateRangeCompare(current, DateOf(start), DateOf(end), TRUE)
          [] k = <<"month", "year", "month", "year">> ->
                LET start == makeDate(p[2].value, p[1].value, 1)
                    end == makeDate(p[4].value, p[3].value,
                                    lastDayOfMonth(p[4].value, p[3].value))
                IN  IF ~start.ok \/ ~end.ok THEN FALSE
                    ELSE dateRangeCompare(current, DateOf(start), DateOf(end), FALSE)
          [] k = <<"day", "month", "year", "day", "month">> ->
                LET start == makeDate(p[3].value, p[2].value, p[1].value)
                    end == makeDate(p[3].value, p[5].value, p[4].value)
                IN  IF ~start.ok \/ ~end.ok THEN FALSE
                    ELSE dateRangeCompare(current, DateOf(start), DateOf(end), TRUE)
          [] k = <<"day", "month", "year", "day", "month", "year">> ->
                LET start == makeDate(p[3].value, p[2].value, p[1].value)
                    end == makeDate(p[6].value, p[5].value, p[4].value)
                IN  IF ~start.ok \/ ~end.ok THEN FALSE
                    ELSE dateRangeCompare(current, DateOf(start), DateOf(end), FALSE)
          [] OTHER -> FALSE

\* dateRangeMatches: false as soon as one argument does not parse
dateRangeMatches(args, now) ==
    LET pargs == [i \in 1..Len(args) |-> parseDateArg(args[i])]
    IN  IF \E i \in 1..Len(args) : ~pargs[i].ok THEN FALSE
        ELSE dateRangeParsed(pargs, now)

\* the dateRange helper
dateRange(arguments, now) ==
    LET args == splitArgsAndLocation(arguments).args
    IN  IF Len(args) = 0 THEN FALSE ELSE dateRangeMatches(args, now)

validHour(hour) == hour >= 0 /\ hour <= 23

\* mutant: only the hour of a time is validated
validTimeHourOnly(hour, minute, second) == validHour(hour)

validTime(hour, minute, second) ==
    validHour(hour) /\ minute >= 0 /\ minute <= 59 /\ second >= 0 /\ second <= 59

\* mutant: a time range whose end is below its start is not cyclic
timeRangeNoWrap(currentSeconds, startSeconds, endSeconds) ==
    currentSeconds >= startSeconds /\ currentSeconds <= endSeconds

timeRangeCompare(currentSeconds, startSeconds, endSeconds) ==
    IF startSeconds <= endSeconds
    THEN currentSeconds >= startSeconds /\ currentSeconds <= endSeconds
    ELSE currentSeconds >= startSeconds \/ currentSeconds <= endSeconds

\* timeRangeMatches
timeRangeMatches(args, now) ==
    LET pargs == [i \in 1..Len(args) |-> parseIntArg(args[i])]
        values == [i \in 1..Len(args) |-> pargs[i].n]
        nowSeconds == now.hour * 3600 + now.minute * 60 + now.second
    IN  IF Len(args) = 0 THEN FALSE
        ELSE IF \E i \in 1..Len(args) : ~pargs[i].ok THEN FALSE
        ELSE CASE Len(values) = 1 ->
                    IF ~validHour(values[1]) THEN FALSE ELSE now.hour = values[1]
               [] Len(values) = 2 ->
                    IF ~validHour(values[1]) \/ ~validHour(values[2]) THEN FALSE
                    ELSE timeRangeCompare(nowSeconds, values[1] * 3600,
                                          values[2] * 3600 + 3599)
               [] Len(values) = 3 ->
                    IF ~validTime(values[1], values[2], values[3]) THEN FALSE
                    ELSE now.hour = values[1] /\ now.minute = values[2]
                            /\ now.second = values[3]
               [] Len(values) = 4 ->
                    IF ~validTime(values[1], values[2], 0)
                            \/ ~validTime(values[3], values[4], 0) THEN FALSE
                    ELSE timeRangeCompare(nowSeconds,
                                          values[1] * 3600 + values[2] * 60,
                                          values[3] * 3600 + values[4] * 60 + 59)
               [] Len(values) = 6 ->
                    IF ~validTime(values[1], values[2], values[3])
                            \/ ~validTime(values[4], values[5], values[6]) THEN FALSE
                    ELSE timeRangeCompare(nowSeconds,
                                          values[1] * 3600 + values[2] * 60 + values[3],
                                          values[4] * 3600 + values[5] * 60 + values[6])
               [] OTHER -> FALSE

\* the timeRange helper
timeRange(arguments, now) ==
    LET args == splitArgsAndLocation(arguments).args
    IN  IF Len(args) = 0 THEN FALSE ELSE timeRangeMatches(args, now)

(***************************************************************************)
(* IP addresses as package net gives them: net.ParseIP returns 16 bytes,   *)
(* an IPv4 address in its IPv4-in-IPv6 form; To4 gives the 4 bytes of such *)
(* an address and nil for any other.                                       *)
(***************************************************************************)
HexLower == <<"0", "1", "2", "3", "4", "5", "6", "7", "8", "9",
              "a", "b", "c", "d", "e", "f">>
HexUpper == <<"0", "1", "2", "3", "4", "5", "6", "7", "8", "9",
              "A", "B", "C", "D", "E", "F">>

IsHex(c) == IndexOf(HexLower, c) > 0 \/ IndexOf(HexUpper, c) > 0

HexDigit(c) ==
    IF IndexOf(HexLower, c) > 0 THEN IndexOf(HexLower, c) - 1 ELSE IndexOf(HexUpper, c) - 1

RECURSIVE HexValue(_)
HexValue(s) ==
    IF s = <<>> THEN 0
    ELSE 16 * HexValue(SubSeq(s, 1, Len(s) - 1)) + HexDigit(s[Len(s)])

\* the bitwise AND of two bytes
RECURSIVE BitAnd(_, _)
BitAnd(a, b) ==
    IF a = 0 \/ b = 0 THEN 0
    ELSE 2 * BitAnd(a \div 2, b \div 2) + (IF a % 2 = 1 /\ b % 2 = 1 THEN 1 ELSE 0)

\* the pieces of s between the occurrences of the character sep
RECURSIVE SplitOn(_, _)
SplitOn(s, sep) ==
    IF \E i \in 1..Len(s) : s[i] = sep
    THEN LET i == CHOOSE j \in 1..Len(s) : s[j] = sep /\ \A k \in 1..(j - 1) : s[k] # sep
         IN  <<SubSeq(s, 1, i - 1)>> \o SplitOn(SubSeq(s, i + 1, Len(s)), sep)
    ELSE <<s>>

NilIP == <<>>
v4InV6Prefix == <<0, 0, 0, 0, 0, 0, 0, 0, 0, 0, 255, 255>>

\* one decimal field of a dotted quad: 1..3 digits, no leading zero, <= 255
IsQuadField(f) ==
    /\ AllDigits(f) /\ Len(f) <= 3
    /\ (Len(f) > 1 => f[1] # "0")
    /\ DigitsValue(f) <= 255

\* the 4 bytes of a dotted quad, <<>> when it is none
parseIPv4(s) ==
    LET f == SplitOn(s, ".")
    IN  IF Len(f) = 4 /\ \A i \in 1..4 : IsQuadField(f[i])
        THEN [i \in 1..4 |-> DigitsValue(f[i])]
        ELSE <<>>

\* one group of an IPv6 address: 1..4 hex digits
IsGroup(g) == Len(g) \in 1..4 /\ \A i \in 1..Len(g) : IsHex(g[i])

\* the bytes of colon separated groups, the last of which may be a dotted
\* quad; <<0>> stands for a malformed list
RECURSIVE groupBytes(_)
groupBytes(gs) ==
    IF gs = <<>> THEN <<>>
    ELSE IF Len(gs) = 1 /\ parseIPv4(gs[1]) # <<>> THEN parseIPv4(gs[1])
    ELSE IF ~IsGroup(Head(gs)) THEN <<0>>
    ELSE LET rest == groupBytes(Tail(gs))
         IN  IF rest = <<0>> THEN <<0>>
             ELSE <<HexValue(Head(gs)) \div 256, HexValue(Head(gs)) % 256>> \o rest

\* the groups of one side of an address: none for the empty string
groupsOf(s) == IF s = <<>> THEN <<>> ELSE SplitOn(s, ":")

\* the position of the first "::" in s, 0 when there is none
Ellipsis(s) ==
    IF \E i \in 1..(Len(s) - 1) : s[i] = ":" /\ s[i + 1] = ":"
    THEN CHOOSE i \in 1..(Len(s) - 1) :
            /\ s[i] = ":" /\ s[i + 1] = ":"
            /\ \A k \in 1..(i - 1) : ~(s[k] = ":" /\ s[k + 1] = ":")
    ELSE 0

\* the 16 bytes of an IPv6 literal, <<>> when it is none
parseIPv6(s) ==
    LET e == Ellipsis(s)
        left == IF e = 0 THEN groupBytes(groupsOf(s))
                ELSE groupBytes(groupsOf(SubSeq(s, 1, e - 1)))
        right == IF e = 0 THEN <<>> ELSE groupBytes(groupsOf(SubSeq(s, e + 2, Len(s))))
    IN  IF left = <<0>> \/ right = <<0>> THEN <<>>
        ELSE IF e = 0 THEN (IF Len(left) = 16 THEN left ELSE <<>>)
        ELSE IF Len(left) + Len(right) > 14 THEN <<>>
        ELSE left \o [i \in 1..(16 - Len(left) - Len(right)) |-> 0] \o right

\* net.ParseIP
ParseIP(s) ==
    IF \E i \in 1..Len(s) : s[i] = ":" THEN parseIPv6(s)
    ELSE IF parseIPv4(s) # <<>> THEN v4InV6Prefix \o parseIPv4(s)
    ELSE NilIP

\* IP.To4
To4(ip) ==
    IF Len(ip) = 4 THEN ip
    ELSE IF Len(ip) = 16 /\ SubSeq(ip, 1, 12) = v4InV6Prefix THEN SubSeq(ip, 13, 16)
    ELSE NilIP

\* IP.To16
To16(ip) ==
    IF Len(ip) = 4 THEN v4InV6Prefix \o ip
    ELSE IF Len(ip) = 16 THEN ip
    ELSE NilIP

\* what the resolver answers for a host name
NoLookup == [err |-> FALSE, addrs |-> <<>>]

\* resolveIP: a literal is parsed, a name is looked up and its first address
\* is parsed
resolveIP(host, lookup) ==
    IF ParseIP(host) # NilIP THEN [ip |-> ParseIP(host), err |-> FALSE]
    ELSE IF lookup.err \/ Len(lookup.addrs) = 0 THEN [ip |-> NilIP, err |-> lookup.err]
    ELSE [ip |-> ParseIP(lookup.addrs[1]), err |-> FALSE]

\* every byte of ip agrees with pat under the mask m
MaskedEqual(ip, pat, m) ==
    \A i \in 1..Len(ip) : BitAnd(ip[i], m[i]) = BitAnd(pat[i], m[i])

\* the isInNet helper
isInNet(arguments, lookup) ==
    LET host == ValueString(arguments[1])
        pattern == ValueString(arguments[2])
        mask == ValueString(arguments[3])
        r == resolveIP(host, lookup)
        ip == r.ip
        pat == ParseIP(pattern)
        m == ParseIP(mask)
    IN  IF r.err \/ ip = NilIP THEN FALSE
        ELSE IF pat = NilIP \/ m = NilIP THEN FALSE
        ELSE IF To4(ip) # NilIP
             THEN IF To4(pat) = NilIP \/ To4(m) = NilIP THEN FALSE
                  ELSE MaskedEqual(To4(ip), To4(pat), To4(m))
        ELSE IF To16(ip) = NilIP \/ To16(pat) = NilIP \/ To16(m) = NilIP THEN FALSE
        ELSE MaskedEqual(To16(ip), To16(pat), To16(m))

\* address literals, as the characters a script writes
Txt_10_0_0_1 == <<"1", "0", ".", "0", ".", "0", ".", "1">>
Txt_10_0_1_1 == <<"1", "0", ".", "0", ".", "1", ".", "1">>
Txt_10_0_0_0 == <<"1", "0", ".", "0", ".", "0", ".", "0">>
Txt_255_255_255_0 == <<"2", "5", "5", ".", "2", "5", "5", ".", "2", "5", "5", ".", "0">>
Txt_255_254_0_0 == <<"2", "5", "5", ".", "2", "5", "4", ".", "0", ".", "0">>
Txt_10_0_0_256 == <<"1", "0", ".", "0", ".", "0", ".", "2", "5", "6">>
Txt_Any6 == <<":", ":">>
Txt_Db8_1 == <<"2", "0", "0", "1", ":", "d", "b", "8", ":", ":", "1">>
Txt_Db8_2 == <<"2", "0", "0", "1", ":", "D", "B", "8", ":", ":", "2">>
Txt_Db8_Net == <<"2", "0", "0", "1", ":", "d", "b", "8", ":", ":">>
Txt_Mask32 == <<"f", "f", "f", "f", ":", "f", "f", "f", "f", ":", ":">>
Txt_Mapped == <<":", ":", "f", "f", "f", "f", ":", "1", "0", ".", "0", ".", "0", ".", "1">>
Txt_Zone == <<"f", "e", "8", "0", ":", ":", "1", "%", "e", "t", "h", "0">>
Txt_Name == <<"h", "o", "s", "t">>

HostTexts == {Txt_10_0_0_1, Txt_10_0_1_1, Txt_Db8_1, Txt_Db8_2, Txt_Mapped, Txt_10_0_0_256}
PatternTexts == {Txt_10_0_0_0, Txt_10_0_0_1, Txt_Db8_Net, Txt_Db8_1, Txt_Name}
MaskTexts == {Txt_255_255_255_0, Txt_255_254_0_0, Txt_Any6, Txt_Mask32, Txt_10_0_0_256}

\* the answers of the resolver for the host name
Lookups ==
    {NoLookup, [err |-> TRUE, addrs |-> <<>>]}
        \cup {[err |-> FALSE, addrs |-> <<a, Txt_10_0_1_1>>] :
                a \in {Txt_10_0_0_1, Txt_Db8_1, Txt_Zone}}

\* literal hosts need no lookup; a host name gets every answer
NetCalls ==
    {[args |-> <<ArgString(h), ArgString(p), ArgString(m)>>, dns |-> NoLookup] :
        h \in HostTexts, p \in PatternTexts, m \in MaskTexts}
    \cup {[args |-> <<ArgString(Txt_Name), ArgString(p), ArgString(m)>>, dns |-> l] :
            p \in PatternTexts, m \in MaskTexts, l \in Lookups}

(***************************************************************************)
(* The helper calls the model generates: the arguments a script passes and *)
(* the reading of the clock when the helper runs.                          *)
(***************************************************************************)
\* the longest argument list built from all the argument values below
MaxHelperArgs == 2
\* the clock readings span FirstYear .. FirstYear + YearSpan
YearSpan == 2
FirstYear == 1999

\* all sequences over S of length 0..n
RECURSIVE SeqsUpTo(_, _)
SeqsUpTo(S, n) ==
    IF n = 0 THEN {<<>>}
    ELSE SeqsUpTo(S, n - 1) \cup
            {Append(q, x) : q \in {r \in SeqsUpTo(S, n - 1) : Len(r) = n - 1}, x \in S}

GMTArg == ArgString(<<" ", "g", "m", "T">>)

\* with and without a trailing GMT argument
WithGMT(calls) == calls \cup {Append(c, GMTArg) : c \in calls}

\* values no helper accepts as a number or a name
OddArgs == {ArgFloat(2), ArgUndefined, ArgString(<<"x">>), ArgString(<<>>)}

\* weekdays as numbers, as names in any case and length, as digits
WeekdayArgValues ==
    {ArgInt(n) : n \in 0..6}
        \cup {ArgString(<<"S", "U", "N">>), ArgString(<<"w", "e", "d">>),
              ArgString(<<" ", "S", "a", "t", "u", "r", "d", "a", "y", " ">>),
              ArgString(<<" ", "3">>)}

\* values that are no weekday
NoWeekdayArgValues ==
    {ArgInt(-1), ArgInt(7), ArgString(<<"F", "R">>), ArgString(<<"7">>)} \cup OddArgs

WeekdayCalls ==
    WithGMT({<<a, b>> : a \in WeekdayArgValues, b \in WeekdayArgValues})
        \cup WithGMT(SeqsUpTo({ArgInt(1), ArgString(<<"S", "U", "N">>)}
                                  \cup NoWeekdayArgValues, MaxHelperArgs))
        \cup {<<ArgInt(1), ArgInt(2), ArgInt(3)>>}

ClockYears == FirstYear..(FirstYear + YearSpan)
ClockMonths == {1, 2, 4, 12}
ClockDays == {1, 15, 28, 29, 30, 31}

\* the dates of the clock readings, at noon
DateClocks ==
    {Clock(c[1], c[2], c[3], 12, 0, 0) :
        c \in {e \in ClockYears \X ClockMonths \X ClockDays : e[3] <= DaysIn(e[1], e[2])}}

\* one week of clock readings
WeekClocks == {Clock(FirstYear + 1, 1, d, 12, 0, 0) : d \in 2..8}

DayArgValues == {ArgInt(d) : d \in ClockDays}

MonthArgValues ==
    {ArgString(<<"J", "A", "N">>), ArgString(<<"f", "e", "b">>),
     ArgString(<<" ", "A", "P", "R", " ">>),
     ArgString(<<"D", "e", "c", "e", "m", "b", "e", "r">>)}

YearArgValues == {ArgInt(y) : y \in ClockYears} \cup {ArgInt(99)}

\* some values of every kind, and values that are no day, month or year
SomeDateArgValues ==
    {ArgInt(1), ArgInt(31), ArgInt(32), ArgInt(99), ArgInt(100), ArgInt(FirstYear + 1),
     ArgString(<<"J", "A", "N">>), ArgString(<<"d", "e", "c", "e", "m", "b", "e", "r">>),
     ArgString(<<" ", "1", "5">>), ArgString(<<"J", "A">>), ArgInt(-1), ArgInt(0)}
        \cup OddArgs

\* day, day and month, month and year, year
DateCalls2 ==
    {<<a, b>> : a \in DayArgValues, b \in DayArgValues}
        \cup {<<a, b>> : a \in MonthArgValues, b \in MonthArgValues}
        \cup {<<a, b>> : a \in YearArgValues, b \in YearArgValues}

\* day, month, day, month and month, year, month, year
DateCalls4 ==
    {<<d1, m1, d2, m2>> : d1 \in DayArgValues, m1 \in MonthArgValues,
                          d2 \in DayArgValues, m2 \in MonthArgValues}
        \cup {<<m1, y1, m2, y2>> : m1 \in MonthArgValues, y1 \in YearArgValues,
                                   m2 \in MonthArgValues, y2 \in YearArgValues}

DateCalls ==
    WithGMT(SeqsUpTo(SomeDateArgValues, MaxHelperArgs)) \cup WithGMT(DateCalls2)
        \cup DateCalls4

\* one value of each kind: a day, a month and a year
OneOfEachKind ==
    {ArgInt(1), ArgString(<<"J", "A", "N">>), ArgInt(FirstYear + 1)}

\* every order of kinds in 3, 4 and 5 arguments, 6 arguments that begin or
\* end as a date, and 7 arguments
DateCallsAnyOrder ==
    {<<a, b, c>> : a \in OneOfEachKind, b \in OneOfEachKind, c \in OneOfEachKind}
        \cup {<<a, b, c, d>> : a \in OneOfEachKind, b \in OneOfEachKind,
                               c \in OneOfEachKind, d \in OneOfEachKind}
        \cup {<<a, b, c, d, e>> : a \in OneOfEachKind, b \in OneOfEachKind,
                                  c \in OneOfEachKind, d \in OneOfEachKind,
                                  e \in OneOfEachKind}
        \cup {<<ArgInt(1), ArgString(<<"J", "A", "N">>), ArgInt(FirstYear + 1), a, b, c>> :
                    a \in OneOfEachKind, b \in OneOfEachKind, c \in OneOfEachKind}
        \cup {<<a, b, c, ArgInt(1), ArgString(<<"J", "A", "N">>), ArgInt(FirstYear + 1)>> :
                    a \in OneOfEachKind, b \in OneOfEachKind, c \in OneOfEachKind}
        \cup WithGMT({<<ArgInt(1), ArgString(<<"J", "A", "N">>), ArgInt(FirstYear + 1),
                        ArgInt(1), ArgString(<<"J", "A", "N">>), ArgInt(FirstYear + 1), a>> :
                            a \in OneOfEachKind})

FewDayArgValues == {ArgInt(1), ArgInt(29), ArgInt(31)}

FewMonthArgValues ==
    {ArgString(<<"J", "A", "N">>), ArgString(<<"f", "e", "b">>),
     ArgString(<<" ", "A", "P", "R", " ">>)}

FewYearArgValues == {ArgInt(FirstYear), ArgInt(FirstYear + 1)}

\* day, month, year, day, month with and without a closing year
DateCalls56 ==
    {<<d1, m1, y1, d2, m2>> : d1 \in FewDayArgValues, m1 \in FewMonthArgValues,
                              y1 \in FewYearArgValues, d2 \in FewDayArgValues,
                              m2 \in FewMonthArgValues}
        \cup {<<d1, m1, y1, d2, m2, y2>> :
                    d1 \in FewDayArgValues, m1 \in FewMonthArgValues,
                    y1 \in FewYearArgValues, d2 \in FewDayArgValues,
                    m2 \in FewMonthArgValues, y2 \in FewYearArgValues}

LongDateCalls == DateCallsAnyOrder \cup DateCalls56

\* the clock readings the calls of three and more arguments are made at
FewDateClocks == {c \in DateClocks : c.month \in {1, 2, 4} /\ c.day \in {1, 15, 29, 31}}

ClockHours == {0, 2, 12, 22, 23}
ClockMinutes == {0, 30, 59}
ClockSeconds == {0, 30, 59}

TimeClocks ==
    {Clock(FirstYear + 1, 1, 1, h, mi, s) :
        h \in ClockHours, mi \in ClockMinutes, s \in ClockSeconds}

HourArgValues == {ArgInt(h) : h \in ClockHours \cup {-1, 24}}
MinuteArgValues == {ArgInt(mi) : mi \in ClockMinutes \cup {-1, 60}}
SecondArgValues == {ArgInt(0), ArgInt(59), ArgInt(60)}
FewHourArgValues == {ArgInt(0), ArgInt(12), ArgInt(23)}
FewMinuteArgValues == {ArgInt(0), ArgInt(59)}

TimeCalls ==
    WithGMT({<<h1, h2>> : h1 \in HourArgValues, h2 \in HourArgValues})
        \cup WithGMT(SeqsUpTo({ArgInt(12), ArgInt(24), ArgString(<<"2", "2">>)}
                                  \cup OddArgs, MaxHelperArgs))
        \cup {<<h>> \o t : h \in FewHourArgValues,
                           t \in SeqsUpTo(MinuteArgValues, MaxHelperArgs)}
        \cup {<<h1, m1, h2, m2>> :
                    h1 \in FewHourArgValues \cup {ArgInt(24)}, m1 \in MinuteArgValues,
                    h2 \in FewHourArgValues \cup {ArgInt(24)}, m2 \in MinuteArgValues}
        \cup {<<h1, m1, s1, h2, m2>> : h1 \in FewHourArgValues, m1 \in FewMinuteArgValues,
                                       s1 \in SecondArgValues, h2 \in FewHourArgValues,
                                       m2 \in FewMinuteArgValues}
        \cup {<<h1, m1, s1, h2, m2, s2>> :
                    h1 \in FewHourArgValues, m1 \in FewMinuteArgValues,
                    s1 \in SecondArgValues, h2 \in FewHourArgValues,
                    m2 \in FewMinuteArgValues, s2 \in SecondArgValues}
        \cup {<<h, h, h, h, h, h, h>> : h \in FewHourArgValues}

NoHelperRet == [done |-> FALSE, value |-> FALSE]

\* a script is about to call one helper
InitHelper ==
    /\ hret = NoHelperRet
    /\ \/ /\ hfn = "weekdayRange" /\ hargs \in WeekdayCalls /\ hnow \in WeekClocks
          /\ hdns = NoLookup
       \/ /\ hfn = "dateRange" /\ hargs \in DateCalls /\ hnow \in DateClocks
          /\ hdns = NoLookup
       \/ /\ hfn = "dateRange" /\ hargs \in LongDateCalls /\ hnow \in FewDateClocks
          /\ hdns = NoLookup
       \/ /\ hfn = "timeRange" /\ hargs \in TimeCalls /\ hnow \in TimeClocks
          /\ hdns = NoLookup
       \/ /\ hfn = "isInNet" /\ hnow = Clock(FirstYear, 1, 1, 0, 0, 0)
          /\ \E c \in NetCalls : hargs = c.args /\ hdns = c.dns

\* the variables of the helpers while another part is modelled
IdleHelper ==
    /\ hfn = "none"
    /\ hargs = <<>>
    /\ hnow = Clock(FirstYear, 1, 1, 0, 0, 0)
    /\ hdns = NoLookup
    /\ hret = NoHelperRet

\* the helper returns r.ToValue(value) to the script
HelperReturn(value) ==
    /\ ~hret.done
    /\ hret' = [done |-> TRUE, value |-> value]
    /\ UNCHANGED <<hfn, hargs, hnow, hdns>>
    /\ HelperOnly

DoWeekdayRange == hfn = "weekdayRange" /\ HelperReturn(weekdayRange(hargs, hnow))

DoDateRange == hfn = "dateRange" /\ HelperReturn(dateRange(hargs, hnow))

DoTimeRange == hfn = "timeRange" /\ HelperReturn(timeRange(hargs, hnow))

DoIsInNet == hfn = "isInNet" /\ HelperReturn(isInNet(hargs, hdns))

NextHelper ==
    \/ DoWeekdayRange
    \/ DoDateRange
    \/ DoTimeRange
    \/ DoIsInNet


(***************************************************************************)
(* Specifications                                                          *)
(***************************************************************************)
Init == InitEval /\ IdleParse /\ IdleConfig /\ IdleLoad /\ IdleHelper

Next == NextEval

\* concurrent FindProxyStringForURL calls on one PACProxy
Spec == Init /\ [][Next]_vars

InitParseSpec == IdleEval /\ InitParse /\ IdleConfig /\ IdleLoad /\ IdleHelper

\* ProxyString.Parse on generated ProxyStrings
ParseSpec == InitParseSpec /\ [][DoParse]_vars

InitConfigSpec == IdleEval /\ IdleParse /\ InitConfig /\ IdleLoad /\ IdleHelper

\* normalizePACProxyConfig on generated configurations
ConfigSpec == InitConfigSpec /\ [][DoNormalize]_vars

InitLoadSpec == IdleEval /\ IdleParse /\ IdleConfig /\ InitLoad /\ IdleHelper

\* NewPACProxy on generated configurations, responses and scripts
LoadSpec == InitLoadSpec /\ [][NextLoad]_vars

\* Scheduling: every runnable goroutine eventually runs, a timer that was
\* started eventually fires, and sync.Mutex hands the lock to a waiter
\* that keeps waiting (starvation mode).
Fairness ==
    \A i \in Procs :
        /\ SF_vars(Lock(i))
        /\ WF_vars(Worker(i))
        /\ WF_vars(Caller(i))

FairSpec == Spec /\ Fairness

InitHelperSpec == IdleEval /\ IdleParse /\ IdleConfig /\ IdleLoad /\ InitHelper

\* the PAC helpers on generated arguments and clock readings
HelperSpec == InitHelperSpec /\ [][NextHelper]_vars


(***************************************************************************)
(* Claims about FindProxyStringForURL / evalWithTimeout                    *)
(***************************************************************************)
\* the call is inside fn, i.e. uses the interpreter
InsideInterpreter(i) == wpc[i] \in {"fn", "vm"}

\* C1: at any moment at most one call of the instance is inside the script
\* interpreter, with the script timeout enabled or disabled.
C1_AtMostOneInInterpreter ==
    Cardinality({i \in Procs : InsideInterpreter(i)}) <= 1

\* two calls contend: one runs the script while the other waits for the lock
C1_Witness ==
    \E i \in Procs, j \in Procs :
        i # j /\ wpc[i] = "vm" /\ mu = i /\ wpc[j] = "lock"

\* C2: a call whose timer fired and whose script was interrupted returns an
\* error that is ErrPACScriptTimeout and is not ErrEvaluatePAC.
C2_TimeoutIsErrPACScriptTimeout ==
    (last.valid /\ last.hist.timedOut /\ last.hist.intrIssued /\ last.hist.aborted)
        => /\ ErrorsIs(last.ret.err, ErrPACScriptTimeout)
           /\ ~ErrorsIs(last.ret.err, ErrEvaluatePAC)

\* C3: a call that starts after a call ended in a timeout, runs alone and
\* whose script returns a string before its own timer fires, succeeds.
C3_CallAfterTimeoutSucceeds ==
    (/\ last.valid /\ last.hist.afterTimeout /\ last.hist.alone
     /\ fnDefined /\ last.kind = "string" /\ ~last.hist.timedOut)
        => last.ret = [str |-> PacString, err |-> Nil]

\* C4 as stated: every call eventually returns and the lock is eventually
\* free again, whatever the script does.
C4_EveryCallReturns ==
    /\ \A i \in Procs : InFlight(i) ~> ~InFlight(i)
    /\ (mu # 0) ~> (mu = 0)

\* C4 as amended: with the script timeout enabled, every call eventually
\* returns and the lock is eventually free again, also for a script that
\* never terminates on its own.
C4_EveryCallReturnsWithTimeout ==
    /\ \A i \in Procs : (scriptTimeout > 0 /\ InFlight(i)) ~> ~InFlight(i)
    /\ (scriptTimeout > 0 /\ mu # 0) ~> (mu = 0)

\* a call of a never-terminating script has returned and the lock is free
C4_Witness ==
    /\ scriptTimeout > 0 /\ fnDefined /\ mu = 0
    /\ last.valid /\ last.kind = "loop" /\ last.hist.aborted

BeginsWithKeyword(t) ==
    \/ HasPrefix(TrimSpace(t), <<"DIRECT">>)
    \/ HasPrefix(TrimSpace(t), <<"PROXY">>)
    \/ HasPrefix(TrimSpace(t), <<"SOCKS">>)

\* the trimmed directive starts with DIRECT, or with PROXY or SOCKS and a blank
BeginsWithDirective(t) ==
    \/ HasPrefix(TrimSpace(t), <<"DIRECT">>)
    \/ HasPrefix(TrimSpace(t), <<"PROXY", " ">>)
    \/ HasPrefix(TrimSpace(t), <<"SOCKS", " ">>)

\* index of the first directive starting with a keyword, 0 when there is none
FirstKeyword ==
    IF \E k \in 1..Len(tokens) : BeginsWithKeyword(tokens[k])
    THEN CHOOSE k \in 1..Len(tokens) :
            /\ BeginsWithKeyword(tokens[k])
            /\ \A j \in 1..(k - 1) : ~BeginsWithKeyword(tokens[j])
    ELSE 0

\* index of the first directive in one of the three forms, 0 when there is none
FirstDirective ==
    IF \E k \in 1..Len(tokens) : BeginsWithDirective(tokens[k])
    THEN CHOOSE k \in 1..Len(tokens) :
            /\ BeginsWithDirective(tokens[k])
            /\ \A j \in 1..(k - 1) : ~BeginsWithDirective(tokens[j])
    ELSE 0

ParsedResult == [url |-> parsed.url, err |-> parsed.err]

C7_NoValidProxyExactly ==
    parsed.done =>
        /\ (parsed.err = ErrNoValidProxy) <=> (FirstDirective = 0)
        /\ (FirstDirective # 0 => ParsedResult = Parse(tokens[FirstDirective]))

(***************************************************************************)
(* Claims about normalizePACProxyConfig                                    *)
(***************************************************************************)
\* the option as the caller gave it (a nil config gives zero values)
Given(field) == IF config.isNil THEN 0 ELSE config[field]

\* zero becomes the default, a negative value 0, a positive value stays
Defaulted(field, default) ==
    /\ (Given(field) = 0 => cfg.out[field] = default)
    /\ (Given(field) < 0 => cfg.out[field] = 0)
    /\ (Given(field) > 0 => cfg.out[field] = Given(field))

\* C8: each of HTTPTimeout, ScriptTimeout, DNSLookupTimeout, MaxScriptSize
\* is mapped on its own: 0 to the default (10 s, 5 s, 2 s, 1 MiB), negative
\* to 0, positive unchanged; a caller's Client is kept, and only a nil
\* Client is replaced by one built with the normalised HTTPTimeout.
C8_ConfigDefaults ==
    cfg.done =>
        /\ Defaulted("HTTPTimeout", 10000)
        /\ Defaulted("ScriptTimeout", 5000)
        /\ Defaulted("DNSLookupTimeout", 2000)
        /\ Defaulted("MaxScriptSize", 1048576)
        /\ (~config.isNil /\ config.Client # NilClient => cfg.out.Client = config.Client)
        /\ (config.isNil \/ config.Client = NilClient
                => cfg.out.Client = BuiltClient(cfg.out.HTTPTimeout))

\* a configuration mixing a zero, negative and positive options and a
\* caller's client has been normalised
C8_Witness ==
    /\ cfg.done /\ ~config.isNil
    /\ config.Client = CallerClient
    /\ config.HTTPTimeout = 0 /\ config.ScriptTimeout < 0
    /\ config.DNSLookupTimeout > 0 /\ config.MaxScriptSize < 0
    /\ cfg.out.ScriptTimeout = 0 /\ cfg.out.HTTPTimeout = 10000

(***************************************************************************)
(* Claims about NewPACProxy                                                *)
(***************************************************************************)
StagesRun == Len(lhist.stages)

LastStage == lhist.stages[StagesRun]

\* C5: once the response has status 200, NewPACProxy fails with
\* ErrPACScriptTooLarge exactly when the size limit is enabled and the
\* declared length or the body exceeds it: a body of MaxScriptSize+1 bytes
\* fails so whatever length was declared, one of MaxScriptSize bytes does not.
C5_TooLargeExactly ==
    (result.done /\ StagesRun >= 3) =>
        (ErrorsIs(result.err, ErrPACScriptTooLarge)
            <=> /\ lcfg.MaxScriptSize > 0
                /\ \/ resp.ContentLength > lcfg.MaxScriptSize
                   \/ resp.bodyLen > lcfg.MaxScriptSize)

\* C9: NewPACProxy returns an instance exactly when it returns no error;
\* the stages run in the order fetch, status, declared size, read, bind,
\* top-level run and stop at the first that fails; a transport error or a
\* status other than 200 gives ErrFetchPACScript, a read I/O error
\* ErrReadPACScript, a bind or top-level failure ErrExecutePACScript.
C9_StageErrors ==
    result.done =>
        /\ (result.inst # "nil") <=> result.err.nil
        /\ StagesRun >= 1
        /\ lhist.stages = SubSeq(StageOrder, 1, StagesRun)
        /\ (StagesRun >= 2 => resp.err.nil)
        /\ (StagesRun >= 3 => resp.StatusCode = 200)
        /\ (StagesRun >= 4 =>
                ~(lcfg.MaxScriptSize > 0 /\ resp.ContentLength > lcfg.MaxScriptSize))
        /\ (StagesRun >= 5 => script = resp.bodyLen /\ ~resp.bodyFails)
        /\ (StagesRun >= 6 => ~lhist.defineErr)
        /\ (result.err.nil =>
                lhist.stages = StageOrder /\ topKind = "ok" /\ ~lhist.intrIssued)
        /\ (~result.err.nil =>
              /\ (LastStage = "fetch" =>
                    ~resp.err.nil /\ ErrorsIs(result.err, ErrFetchPACScript))
              /\ (LastStage = "status" =>
                    resp.StatusCode # 200 /\ ErrorsIs(result.err, ErrFetchPACScript))
              /\ (LastStage = "size" =>
                    resp.ContentLength > lcfg.MaxScriptSize)
              /\ (LastStage = "read" =>
                    \/ resp.bodyFails /\ ErrorsIs(result.err, ErrReadPACScript)
                    \/ lcfg.MaxScriptSize > 0 /\ resp.bodyLen > lcfg.MaxScriptSize)
              /\ (LastStage = "bind" =>
                    lhist.defineErr /\ ErrorsIs(result.err, ErrExecutePACScript))
              /\ (LastStage = "run" =>
                    /\ (topKind # "ok" \/ lhist.intrIssued)
                    /\ ErrorsIs(result.err, ErrExecutePACScript)))

\* a load whose script throws at top level ended in ErrExecutePACScript
C9_Witness ==
    /\ result.done /\ result.inst = "nil"
    /\ lhist.stages = StageOrder /\ topKind = "throw"
    /\ ErrorsIs(result.err, ErrExecutePACScript)

(***************************************************************************)
(* Claims about the PAC helper functions                                   *)
(***************************************************************************)
\* the arguments of the helper call without the GMT marker
CallArgs == splitArgsAndLocation(hargs).args

\* membership of current in the range start..end, cyclic when start > end
InRange(current, start, end) ==
    IF start <= end THEN start <= current /\ current <= end
    ELSE current >= start \/ current <= end

\* the call is weekdayRange with two valid weekdays
TwoWeekdays ==
    /\ hfn = "weekdayRange" /\ Len(CallArgs) = 2
    /\ parseWeekdayArg(CallArgs[1]).ok /\ parseWeekdayArg(CallArgs[2]).ok

\* the call is dateRange with two arguments of one kind
TwoOfKind(k) ==
    /\ hfn = "dateRange" /\ Len(CallArgs) = 2
    /\ parseDateArg(CallArgs[1]).ok /\ parseDateArg(CallArgs[2]).ok
    /\ parseDateArg(CallArgs[1]).kind = k /\ parseDateArg(CallArgs[2]).kind = k

\* C11: weekdayRange with two valid weekdays, and dateRange with two days,
\* two months or two years, is true iff start <= current <= end when
\* start <= end, and iff current >= start or current <= end when start > end.
C11_CyclicRange ==
    hret.done =>
        /\ TwoWeekdays =>
            hret.value = InRange(hnow.weekday, parseWeekdayArg(CallArgs[1]).day,
                                 parseWeekdayArg(CallArgs[2]).day)
        /\ TwoOfKind("day") =>
            hret.value = InRange(hnow.day, parseDateArg(CallArgs[1]).value,
                                 parseDateArg(CallArgs[2]).value)
        /\ TwoOfKind("month") =>
            hret.value = InRange(hnow.month, parseDateArg(CallArgs[1]).value,
                                 parseDateArg(CallArgs[2]).value)
        /\ TwoOfKind("year") =>
            hret.value = InRange(hnow.year, parseDateArg(CallArgs[1]).value,
                                 parseDateArg(CallArgs[2]).value)

\* dateRange(30, 1) has returned true on the first day of a month
C11_Witness ==
    /\ hret.done /\ hret.value /\ TwoOfKind("day")
    /\ parseDateArg(CallArgs[1]).value > parseDateArg(CallArgs[2]).value
    /\ hnow.day <= parseDateArg(CallArgs[2]).value

\* the whole numbers passed to the call
IntArgs == [i \in 1..Len(CallArgs) |-> parseIntArg(CallArgs[i]).n]

\* the call is timeRange with n whole numbers
TimeCall(n) ==
    /\ hfn = "timeRange" /\ Len(CallArgs) = n
    /\ \A i \in 1..n : parseIntArg(CallArgs[i]).ok

IsHour(h) == h \in 0..23
IsMinute(m) == m \in 0..59

\* the clock reading in seconds since midnight
NowSeconds == hnow.hour * 3600 + hnow.minute * 60 + hnow.second

\* C12: the 2-, 4- and 6-argument forms of timeRange with valid values run
\* from h1:00:00 to h2:59:59, from h1:m1:00 to h2:m2:59 and from h1:m1:s1 to
\* h2:m2:s2 in seconds since midnight, cyclic when start > end;
\* timeRange(22, 2) is true at hour 23 and false at hour 12.
C12_TimeRanges ==
    hret.done =>
        /\ (TimeCall(2) /\ IsHour(IntArgs[1]) /\ IsHour(IntArgs[2])) =>
            hret.value = InRange(NowSeconds, IntArgs[1] * 3600, IntArgs[2] * 3600 + 3599)
        /\ (TimeCall(4) /\ IsHour(IntArgs[1]) /\ IsMinute(IntArgs[2])
                /\ IsHour(IntArgs[3]) /\ IsMinute(IntArgs[4])) =>
            hret.value = InRange(NowSeconds, IntArgs[1] * 3600 + IntArgs[2] * 60,
                                 IntArgs[3] * 3600 + IntArgs[4] * 60 + 59)
        /\ (TimeCall(6) /\ IsHour(IntArgs[1]) /\ IsMinute(IntArgs[2])
                /\ IsMinute(IntArgs[3]) /\ IsHour(IntArgs[4])
                /\ IsMinute(IntArgs[5]) /\ IsMinute(IntArgs[6])) =>
            hret.value = InRange(NowSeconds,
                                 IntArgs[1] * 3600 + IntArgs[2] * 60 + IntArgs[3],
                                 IntArgs[4] * 3600 + IntArgs[5] * 60 + IntArgs[6])
        /\ (hfn = "timeRange" /\ CallArgs = <<ArgInt(22), ArgInt(2)>>) =>
            /\ hnow.hour = 23 => hret.value
            /\ hnow.hour = 12 => ~hret.value

\* timeRange(22, 2) has returned true at hour 23
C12_Witness ==
    /\ hret.done /\ hret.value /\ hfn = "timeRange"
    /\ CallArgs = <<ArgInt(22), ArgInt(2)>> /\ hnow.hour = 23

\* the argument is a string that begins, after trimming and in any case,
\* with the three letters of a month
IsMonthName(v) ==
    v.t = "string" /\ \E i \in 1..12 : HasPrefix(ToUpper(TrimSpace(v.s)), monthNames[i])

MonthOfName(v) ==
    CHOOSE i \in 1..12 : HasPrefix(ToUpper(TrimSpace(v.s)), monthNames[i])

\* the argument is a whole number, given as a number or as its digits
IsInteger(v) == parseIntArg(v).ok

\* the classification of one dateRange argument as the claim gives it
Classified(v) ==
    IF IsMonthName(v) THEN [kind |-> "month", value |-> MonthOfName(v), ok |-> TRUE]
    ELSE IF IsInteger(v) /\ parseIntArg(v).n \in 1..31
         THEN [kind |-> "day", value |-> parseIntArg(v).n, ok |-> TRUE]
    ELSE IF IsInteger(v) /\ parseIntArg(v).n \in 32..99
         THEN [kind |-> "year", value |-> 1900 + parseIntArg(v).n, ok |-> TRUE]
    ELSE IF IsInteger(v) /\ parseIntArg(v).n > 99
         THEN [kind |-> "year", value |-> parseIntArg(v).n, ok |-> TRUE]
    ELSE [kind |-> "none", value |-> 0, ok |-> FALSE]

\* C13: dateRange takes a month name as a month, else an integer 1..31 as a
\* day of the month, else a positive integer as a year (two digits: 1900+n);
\* a zero, negative or non-integer argument makes the call return false.
C13_DateArgClassification ==
    (hret.done /\ hfn = "dateRange") =>
        /\ \A i \in 1..Len(CallArgs) : parseDateArg(CallArgs[i]) = Classified(CallArgs[i])
        /\ (\E i \in 1..Len(CallArgs) : ~Classified(CallArgs[i]).ok) => ~hret.value
        /\ Len(CallArgs) = 1 =>
            LET c == Classified(CallArgs[1])
            IN  /\ c.kind = "day" => (hret.value = (hnow.day = c.value))
                /\ c.kind = "month" => (hret.value = (hnow.month = c.value))
                /\ c.kind = "year" => (hret.value = (hnow.year = c.value))

\* dateRange(99) has returned true in 1999
C13_Witness ==
    /\ hret.done /\ hret.value /\ hfn = "dateRange"
    /\ CallArgs = <<ArgInt(99)>> /\ hnow.year = 1999

\* the address family of a parsed address: 4 for an IPv4 address (also one
\* written in its IPv4-in-IPv6 form), else 6
Family(ip) == IF To4(ip) # NilIP THEN 4 ELSE 6

\* the bytes of the address in its family: 4 or 16
FamilyBytes(ip) == IF To4(ip) # NilIP THEN To4(ip) ELSE To16(ip)

\* host (after resolution), pattern and mask of the isInNet call
NetHost == resolveIP(ValueString(hargs[1]), hdns)
NetPattern == ParseIP(ValueString(hargs[2]))
NetMask == ParseIP(ValueString(hargs[3]))

NetAllParse ==
    ~NetHost.err /\ NetHost.ip # NilIP /\ NetPattern # NilIP /\ NetMask # NilIP

NetSameFamily ==
    Family(NetHost.ip) = Family(NetPattern) /\ Family(NetPattern) = Family(NetMask)

\* C14: isInNet is true iff host (after resolution), pattern and mask all
\* parse, are of one address family, and address AND mask equals pattern AND
\* mask on each of the 4 or 16 bytes; with mixed families it is false.
C14_IsInNet ==
    (hret.done /\ hfn = "isInNet") =>
        hret.value =
            (/\ NetAllParse
             /\ NetSameFamily
             /\ MaskedEqual(FamilyBytes(NetHost.ip), FamilyBytes(NetPattern),
                            FamilyBytes(NetMask)))

(***************************************************************************)
(* Claims about the worker, the timer and the interrupt of evalWithTimeout *)
(***************************************************************************)
\* C15: with the script timeout enabled, a call that has returned to its
\* caller has no worker left: its goroutine has finished the script call,
\* released the lock and handed over its result.
C15_WorkerJoinedOnReturn ==
    scriptTimeout > 0 =>
        \A i \in Procs :
            ~InFlight(i) => (wpc[i] = "none" /\ mu # i /\ ~InsideInterpreter(i))

\* a call that interrupted a never-terminating script has returned while
\* nobody holds the lock
C15_Witness ==
    /\ scriptTimeout > 0 /\ last.valid /\ last.kind = "loop"
    /\ last.hist.intrIssued /\ last.hist.aborted
    /\ \A i \in Procs : ~InFlight(i)
    /\ mu = 0

\* the timer of call i has been started
TimerStarted(i) == pc[i] \in {"select", "recheck", "interrupt", "recv"}

\* C16: the timer of a call is started only after its worker acquired the
\* lock: a call whose worker still waits for the lock has no timer, has not
\* timed out and has not interrupted.
C16_TimerAfterLock ==
    \A i \in Procs :
        (InFlight(i) /\ wpc[i] = "lock") =>
            /\ ~TimerStarted(i)
            /\ ~hist[i].timedOut
            /\ ~hist[i].intrIssued

\* a call waits for the lock, without a timer, while the script of another
\* call runs and that call has timed out
C16_Witness ==
    \E i, j \in Procs :
        /\ i # j /\ scriptTimeout > 0
        /\ pc[i] = "waitStarted" /\ wpc[i] = "lock"
        /\ mu = j /\ wpc[j] = "vm" /\ hist[j].timedOut

\* what fn returned for the call that returned last, found from what its
\* script did
LastWorkerResult ==
    IF ~fnDefined THEN FnMissing
    ELSE IF last.hist.aborted
         THEN FnResult(NilValue, InterruptedError("ErrPACScriptTimeout"))
         ELSE FnResult(ScriptReturn(last.kind).value, ScriptReturn(last.kind).err)

\* the channel of a call holds at most the one result of its worker, the
\* worker never finds it full, and a returned call has left nothing in it
ResultHandedOverOnce ==
    \A i \in Procs :
        /\ Len(resultCh[i]) <= 1
        /\ wpc[i] = "publish" => resultCh[i] = <<>>
        /\ resultCh[i] # <<>> => (InFlight(i) /\ wpc[i] = "none")
        /\ (scriptTimeout > 0 /\ pc[i] \in {"select", "recheck", "recv"}) =>
                (resultCh[i] # <<>> \/ wpc[i] # "none")

\* a returned call that did not interrupt returned its worker's result as
\* it is; one that interrupted turned a result without error into
\* ErrPACScriptTimeout; no other call returns ErrPACScriptTimeout
ResultReturnedAsIs ==
    (scriptTimeout > 0 /\ last.valid) =>
        /\ ~last.hist.intrIssued =>
            last.ret = FindProxyStringResult(LastWorkerResult.value, LastWorkerResult.err)
        /\ (last.hist.intrIssued /\ LastWorkerResult.err.nil) =>
            last.ret = [str |-> "", err |-> ErrPACScriptTimeout]
        /\ (last.hist.intrIssued /\ ~LastWorkerResult.err.nil) =>
            last.ret = [str |-> "", err |-> LastWorkerResult.err]
        /\ ErrorsIs(last.ret.err, ErrPACScriptTimeout) =>
            (last.hist.timedOut /\ last.hist.intrIssued)

\* a caller gets to Interrupt only from a re-check that found no result,
\* after its timer fired, and calls Interrupt nowhere else
InterruptOnlyAfterEmptyRecheck ==
    \A i \in Procs :
        /\ (pc'[i] = "interrupt" /\ pc[i] # "interrupt") =>
                (pc[i] = "recheck" /\ hist[i].timedOut /\ resultCh[i] = <<>>)
        /\ (hist'[i].intrIssued /\ ~hist[i].intrIssued) => pc[i] = "interrupt"
        /\ (pc[i] = "recheck" /\ resultCh[i] # <<>>) => pc'[i] \in {"recheck", "idle"}

\* C17: every worker result is received by its own caller exactly once and
\* no worker blocks publishing it; a result available before the timer fires
\* or at the re-check is returned as it is, without Interrupt; a result
\* without error becomes ErrPACScriptTimeout only when the timer fired and
\* the re-check found no result.
C17_ResultProtocol ==
    /\ [](ResultHandedOverOnce /\ ResultReturnedAsIs)
    /\ [][InterruptOnlyAfterEmptyRecheck]_vars

\* a call whose timer fired found its result at the re-check and returned
\* the script's string
C17_Witness ==
    /\ scriptTimeout > 0 /\ fnDefined /\ last.valid /\ last.kind = "string"
    /\ last.hist.timedOut /\ ~last.hist.intrIssued /\ ~last.hist.aborted
    /\ last.ret = [str |-> PacString, err |-> Nil]

\* C18: among concurrent calls, the Interrupt of a call that timed out
\* aborts only that call's own script: a call whose own timer has not fired
\* is not aborted and, with a script that returns a string, returns no error.
C18_InterruptHitsOwnCallOnly ==
    (/\ last.valid /\ scriptTimeout > 0 /\ fnDefined
     /\ ~last.hist.alone /\ ~last.hist.afterTimeout
     /\ ~last.hist.timedOut) =>
        /\ ~last.hist.aborted
        /\ last.kind = "string" => last.ret.err.nil

(***************************************************************************)
(* Claims about the top-level run of the script in NewPACProxy             *)
(***************************************************************************)
\* C19: when the top-level code of the script runs past ScriptTimeout and
\* is interrupted, NewPACProxy returns no instance and an error that is
\* ErrPACScriptTimeout.
C19_LoadTimeoutIsErrPACScriptTimeout ==
    (/\ result.done /\ lhist.stages = StageOrder
     /\ lcfg.ScriptTimeout > 0 /\ topKind = "loop"
     /\ lhist.timerFired /\ lhist.intrIssued) =>
        /\ result.inst = "nil"
        /\ ErrorsIs(result.err, ErrPACScriptTimeout)

(***************************************************************************)
(* Claims about the 4-argument forms of dateRange                          *)
(***************************************************************************)
\* a precedes b, or is b, as calendar dates
NotAfter(a, b) ==
    \/ a.year < b.year
    \/ a.year = b.year /\ a.month < b.month
    \/ a.year = b.year /\ a.month = b.month /\ a.day <= b.day

Precedes(a, b) == NotAfter(a, b) /\ a # b

Date(y, m, d) == [year |-> y, month |-> m, day |-> d]

Today == Date(hnow.year, hnow.month, hnow.day)

\* the day exists in the month of the year
Exists(date) == date.day \in 1..DaysIn(date.year, date.month)

\* the call is dateRange with arguments of the given kinds
DateCallOf(kinds) ==
    /\ hfn = "dateRange" /\ Len(CallArgs) = Len(kinds)
    /\ \A i \in 1..Len(kinds) :
            Classified(CallArgs[i]).ok /\ Classified(CallArgs[i]).kind = kinds[i]

\* the value of argument i
ArgValue(i) == Classified(CallArgs[i]).value

\* C20: dateRange(day, month, day, month) takes both dates in the current
\* year and, when the end precedes the start, is true iff current >= start
\* or current <= end; dateRange(month, year, month, year) runs from the first
\* day of the start month to the last day of the end month and never wraps:
\* when its end precedes its start it is false on every date.
C20_FourArgumentRanges ==
    hret.done =>
        /\ DateCallOf(<<"day", "month", "day", "month">>) =>
            LET start == Date(hnow.year, ArgValue(2), ArgValue(1))
                end == Date(hnow.year, ArgValue(4), ArgValue(3))
            IN  (Exists(start) /\ Exists(end)) =>
                    hret.value = IF Precedes(end, start)
                                 THEN NotAfter(start, Today) \/ NotAfter(Today, end)
                                 ELSE NotAfter(start, Today) /\ NotAfter(Today, end)
        /\ DateCallOf(<<"month", "year", "month", "year">>) =>
            LET start == Date(ArgValue(2), ArgValue(1), 1)
                end == Date(ArgValue(4), ArgValue(3), DaysIn(ArgValue(4), ArgValue(3)))
            IN  /\ hret.value = (NotAfter(start, Today) /\ NotAfter(Today, end))
                /\ Precedes(end, start) => ~hret.value

\* dateRange(28, "DEC", 15, "JAN") has returned true on 1 January
C20_Witness ==
    /\ hret.done /\ hret.value
    /\ DateCallOf(<<"day", "month", "day", "month">>)
    /\ ArgValue(1) = 28 /\ ArgValue(2) = 12 /\ ArgValue(3) = 15 /\ ArgValue(4) = 1
    /\ hnow.month = 1 /\ hnow.day = 1


(***************************************************************************)
(* Claims about the argument lists dateRange does not recognise            *)
(***************************************************************************)
\* the orders of kinds dateRange is said to recognise
RecognizedKinds ==
    {<<"day">>, <<"month">>, <<"year">>,
     <<"day", "day">>, <<"month", "month">>, <<"year", "year">>,
     <<"day", "month">>, <<"month", "year">>,
     <<"day", "month", "year">>,
     <<"day", "month", "day", "month">>, <<"month", "year", "month", "year">>,
     <<"day", "month", "year", "day", "month">>,
     <<"day", "month", "year", "day", "month", "year">>}

\* the kinds of the arguments of the call, in their order
CallKinds == [i \in 1..Len(CallArgs) |-> Classified(CallArgs[i]).kind]

\* the call is dateRange and each of its arguments is a day, a month or a year
DateCallOfKinds ==
    /\ hfn = "dateRange"
    /\ \A i \in 1..Len(CallArgs) : Classified(CallArgs[i]).ok

\* C21: dateRange returns false, whatever the current date, when the kinds of
\* its arguments are in no recognised order (month,day; year,month; day,year;
\* ...) and when more than six arguments remain.
C21_UnrecognizedIsFalse ==
    (hret.done /\ hfn = "dateRange") =>
        /\ (DateCallOfKinds /\ CallKinds \notin RecognizedKinds) => ~hret.value
        /\ Len(CallArgs) > 6 => ~hret.value

\* dateRange("JAN", 1) has returned false on 1 January
C21_Witness ==
    /\ hret.done /\ ~hret.value
    /\ DateCallOfKinds /\ CallKinds = <<"month", "day">>
    /\ hnow.month = ArgValue(1) /\ hnow.day = ArgValue(2)

(***************************************************************************)
(* Claims about the start and end dates of the 4-, 5- and 6-argument forms *)
(* of dateRange                                                            *)
(***************************************************************************)
DayMonthDayMonth == <<"day", "month", "day", "month">>
MonthYearMonthYear == <<"month", "year", "month", "year">>
DateToDayMonth == <<"day", "month", "year", "day", "month">>
DateToDate == <<"day", "month", "year", "day", "month", "year">>

\* the forms that give a start and an end date
RangeKinds == {DayMonthDayMonth, MonthYearMonthYear, DateToDayMonth, DateToDate}

\* the start and end dates that arguments of kinds k and values v denote
StartOf(k, v) ==
    CASE k = DayMonthDayMonth -> Date(hnow.year, v[2], v[1])
      [] k = MonthYearMonthYear -> Date(v[2], v[1], 1)
      [] OTHER -> Date(v[3], v[2], v[1])

EndOf(k, v) ==
    CASE k = DayMonthDayMonth -> Date(hnow.year, v[4], v[3])
      [] k = MonthYearMonthYear -> Date(v[4], v[3], DaysIn(v[4], v[3]))
      [] k = DateToDayMonth -> Date(v[3], v[5], v[4])
      [] OTHER -> Date(v[6], v[5], v[4])

\* date is in [start, end], both bounds included
Within(date, start, end) == NotAfter(start, date) /\ NotAfter(date, end)

\* Q(k, start, end) holds of every range call that has returned, k being
\* the kinds of its arguments
OfRangeCalls(Q(_, _, _)) ==
    (hret.done /\ hfn = "dateRange") =>
        LET args == CallArgs
            c == [i \in 1..Len(args) |-> Classified(args[i])]
            k == [i \in 1..Len(args) |-> c[i].kind]
            v == [i \in 1..Len(args) |-> c[i].value]
        IN  k \in RangeKinds => Q(k, StartOf(k, v), EndOf(k, v))

MissingDay(k, start, end) == (~Exists(start) \/ ~Exists(end)) => ~hret.value

\* a range call whose start or end day does not exist has returned false
MissingDayIsFalse == OfRangeCalls(MissingDay)

Ordered(k, start, end) ==
    (Exists(start) /\ Exists(end) /\ ~Precedes(end, start)) =>
        (hret.value = Within(Today, start, end))

\* a range call with existing days whose end does not precede its start has
\* returned whether the current date is in [start, end]
OrderedRangeIsInclusive == OfRangeCalls(Ordered)

Unwrapped(k, start, end) ==
    (k \in {DateToDate, MonthYearMonthYear} /\ Precedes(end, start)) => ~hret.value

\* a 6-argument or month, year, month, year call whose end precedes its
\* start has returned false
UnwrappedRangeIsEmpty == OfRangeCalls(Unwrapped)

Checked(k, start, end) ==
    IF ~Exists(start) \/ ~Exists(end) THEN ~hret.value
    ELSE \/ k = DayMonthDayMonth /\ Precedes(end, start)
         \/ hret.value = Within(Today, start, end)

\* C22: in the 4-, 5- and 6-argument forms of dateRange a start or end day
\* that does not exist in its month and year gives false on every date;
\* otherwise the result is whether start <= current <= end (the day, month,
\* day, month form whose end precedes its start spans the year boundary
\* instead).
C22_RangeDatesChecked == OfRangeCalls(Checked)

(***************************************************************************)
(* Claims about the argument lists timeRange rejects                       *)
(***************************************************************************)
\* the positions of the hours, minutes and seconds in a list of n arguments
HourPositions(n) ==
    CASE n = 1 -> {1} [] n = 2 -> {1, 2} [] n = 3 -> {1} [] n = 4 -> {1, 3}
      [] n = 6 -> {1, 4} [] OTHER -> {}

MinutePositions(n) ==
    CASE n = 3 -> {2} [] n = 4 -> {2, 4} [] n = 6 -> {2, 5} [] OTHER -> {}

SecondPositions(n) == CASE n = 3 -> {3} [] n = 6 -> {3, 6} [] OTHER -> {}

\* C23: timeRange returns false, whatever the current time, when an argument
\* is not an integer, when an hour is outside 0..23 or a minute or second is
\* outside 0..59, and when 0, 5 or more than 6 arguments remain once a
\* trailing GMT argument is dropped.
C23_TimeRangeRejects ==
    (hret.done /\ hfn = "timeRange") =>
        LET args == CallArgs
            n == Len(args)
            p == [i \in 1..n |-> parseIntArg(args[i])]
        IN  /\ (\E i \in 1..n : ~p[i].ok) => ~hret.value
            /\ ((\A i \in 1..n : p[i].ok)
                    /\ \/ \E i \in HourPositions(n) : ~IsHour(p[i].n)
                       \/ \E i \in MinutePositions(n) : ~IsMinute(p[i].n)
                       \/ \E i \in SecondPositions(n) : ~IsMinute(p[i].n))
                    => ~hret.value
            /\ (n = 0 \/ n = 5 \/ n > 6) => ~hret.value

\* timeRange(0, 60, 23, 0) has returned false at noon
C23_Witness ==
    /\ hret.done /\ ~hret.value /\ TimeCall(4)
    /\ IntArgs = <<0, 60, 23, 0>>
    /\ hnow.hour = 12

====
